---- MODULE Spec2Model ----
(***************************************************************************)
(* A model of the SimmGate gateway core: the chat handler                  *)
(* (internal/handlers/chat.go), the exact cache (internal/cache) and the   *)
(* upstream LLM client (internal/llm).                                     *)
(*                                                                         *)
(* Strings that are trimmed, joined or split (user id, model, version id,  *)
(* cache key) are sequences of one-character tokens; the SHA-256 hex digest *)
(* is one token.  Message contents carry their byte length.  Temperature    *)
(* and top_p are counted in tenths.                                         *)
(***************************************************************************)
EXTENDS Integers, Sequences, FiniteSets, TLC

VARIABLES
    now,     \* wall clock (time.Now), in ticks
    cfg,     \* process configuration: cache backend, handler TTL, version id
    items,   \* the cache store: key string -> [value, expiresAt]
    h,       \* per worker: the chat handler's locals and what it wrote
    st,      \* per worker: the stream (decoder goroutine, channel, sink)
    hist,    \* history: requests started, last response stored under each key
    rt,      \* one call of the retry engine: its locals, and what it did
    fn,      \* one call of a function: its arguments and what it returned
    mc       \* the in-process cache object: a Get in flight, sweeper, Close

vars == <<now, cfg, items, h, st, hist, rt, fn, mc>>

----------------------------------------------------------------------------
(* Bounds of the model *)

MaxTime == 2          \* the clock stops ticking here
TTLTicks == 1         \* a positive cache TTL, in ticks
MaxLines == 2         \* lines of an upstream SSE body
MaxRequests == 2      \* requests served in one behaviour
MaxConfiguredRetries == 2   \* the largest max_retries a deployment configures
MaxAttemptNumber == 12      \* the largest attempt number passed to computeBackoff

(* Program constants *)

DefaultMaxRetries == 2
DefaultBaseBackoff == 10      \* 100 ms
MaxExponent == 10
MaxAllowedBackoff == 6000     \* 60 s
MaxShiftedDuration == 900719925   \* the greatest int64 of nanoseconds, / 2^MaxExponent
MaxRetryAfter == 300          \* seconds
MaxMessageSize == 524288
MaxRequestSize == 2097152
StreamBuffer == 16

\* One handler invocation runs on one worker; a worker serves its requests
\* one after the other
Reqs == {"w1", "w2"}

----------------------------------------------------------------------------
(* Strings *)

RECURSIVE TrimLeft(_)
TrimLeft(s) == IF s # <<>> /\ Head(s) = " " THEN TrimLeft(Tail(s)) ELSE s

RECURSIVE TrimRight(_)
TrimRight(s) ==
    IF s # <<>> /\ s[Len(s)] = " " THEN TrimRight(SubSeq(s, 1, Len(s) - 1)) ELSE s

TrimSpace(s) == TrimRight(TrimLeft(s))

\* The sequences of length n over S
RECURSIVE SeqsOfLen(_, _)
SeqsOfLen(S, n) ==
    IF n = 0 THEN {<<>>} ELSE {Append(q, x) : q \in SeqsOfLen(S, n - 1), x \in S}

Anon == <<"a", "n", "o", "n">>
UnknownModel == <<"u", "n", "k">>
V1 == <<"v", "1">>

----------------------------------------------------------------------------
(* llm types (ChatMessage, ChatRequest, ChatResponse) and Validate *)

RoleSystem == "system"
RoleUser == "user"
RoleAssistant == "assistant"

Content(text, len) == [Text |-> text, Len |-> len]
Msg(role, content) == [Role |-> role, Content |-> content]

ZeroRequest ==
    [Model |-> <<>>, Messages |-> <<>>, Temperature |-> 0, TopP |-> 0,
     MaxTokens |-> 0, Stop |-> <<>>, Stream |-> FALSE]

\* The first failing message check from index i on, "" when there is none
RECURSIVE ValidateMessages(_, _)
ValidateMessages(msgs, i) ==
    IF i > Len(msgs) THEN ""
    ELSE IF msgs[i].Role \notin {RoleSystem, RoleUser, RoleAssistant} THEN "invalid role"
    ELSE IF msgs[i].Content.Len = 0 /\ msgs[i].Role # RoleSystem THEN "content is required"
    ELSE ValidateMessages(msgs, i + 1)

\* "" when the request is valid (nil error), else the error of the first
\* failing check
Validate(r) ==
    IF r.Model = <<>> THEN "model is required"
    ELSE IF Len(r.Messages) = 0 THEN "at least one message is required"
    ELSE IF ValidateMessages(r.Messages, 1) # "" THEN ValidateMessages(r.Messages, 1)
    ELSE IF r.Temperature < 0 \/ r.Temperature > 20
         THEN "temperature must be between 0 and 2"
    ELSE IF r.TopP < 0 \/ r.TopP > 10 THEN "top_p must be between 0 and 1"
    ELSE ""

NilUsage == <<>>
NilResponse == [ID |-> "", Created |-> 0, Model |-> "", Choices |-> <<>>, Usage |-> NilUsage]

----------------------------------------------------------------------------
(* JSON of a ChatResponse: a field with omitempty is absent when empty *)

MarshalResponse(resp) ==
    LET present == {"created", "choices"}
                   \cup (IF resp.ID # "" THEN {"id"} ELSE {})
                   \cup (IF resp.Model # "" THEN {"model"} ELSE {})
                   \cup (IF resp.Usage # NilUsage THEN {"usage"} ELSE {})
    IN [f \in present |->
            CASE f = "id" -> resp.ID
              [] f = "created" -> resp.Created
              [] f = "model" -> resp.Model
              [] f = "choices" -> resp.Choices
              [] f = "usage" -> resp.Usage]

GarbageBytes == [garbage |-> TRUE]

UnmarshalResponse(bytes) ==
    IF "garbage" \in DOMAIN bytes
    THEN [ok |-> FALSE, resp |-> NilResponse]
    ELSE [ok |-> TRUE,
          resp |-> [ID |-> IF "id" \in DOMAIN bytes THEN bytes["id"] ELSE "",
                    Created |-> IF "created" \in DOMAIN bytes THEN bytes["created"] ELSE 0,
                    Model |-> IF "model" \in DOMAIN bytes THEN bytes["model"] ELSE "",
                    Choices |-> IF "choices" \in DOMAIN bytes THEN bytes["choices"] ELSE <<>>,
                    Usage |-> IF "usage" \in DOMAIN bytes THEN bytes["usage"] ELSE NilUsage]]

ErrorBody(msg) == [error |-> msg]

----------------------------------------------------------------------------
(* Key builder *)

Join3(a, b, c) == a \o <<":">> \o b \o <<":">> \o c

\* json.Marshal(req) followed by SHA-256 and hex: one token, injective in
\* the normalized text
HashToken(modelID, r) == "sha256:" \o ToString(<<"model:", modelID, "|body:", r>>)

BuildExactCacheKeyFromChatRequest(r, userID, versionID) ==
    [err |-> FALSE,
     key |-> [UserID |-> TrimSpace(userID),
              ModelID |-> TrimSpace(r.Model),
              VersionID |-> TrimSpace(versionID),
              Hash |-> HashToken(TrimSpace(r.Model), r)]]

\* A faulty variant: the key string leaves the user id out
KeyStringNoUser(k) ==
    <<"exact">> \o <<":">> \o k.ModelID \o <<":">> \o k.VersionID \o <<":">> \o <<k.Hash>>

KeyString(k) ==
    <<"exact">> \o <<":">> \o Join3(k.UserID, k.ModelID, k.VersionID)
        \o <<":">> \o <<k.Hash>>

\* strings.Split(s, ":")
RECURSIVE Split(_)
Split(s) ==
    IF \A i \in 1..Len(s) : s[i] # ":" THEN <<s>>
    ELSE LET i == CHOOSE j \in 1..Len(s) : s[j] = ":" /\ \A m \in 1..(j - 1) : s[m] # ":"
         IN <<SubSeq(s, 1, i - 1)>> \o Split(SubSeq(s, i + 1, Len(s)))

\* The logging decorator reads the components back from the key string
ParseExactKey(key) ==
    LET parts == Split(key)
    IN IF Len(parts) # 5 \/ parts[1] # <<"exact">>
       THEN [ok |-> FALSE, userID |-> <<>>, modelID |-> <<>>, versionID |-> <<>>, hash |-> <<>>]
       ELSE [ok |-> TRUE, userID |-> parts[2], modelID |-> parts[3],
             versionID |-> parts[4], hash |-> parts[5]]

----------------------------------------------------------------------------
(* Exact cache: in-process backend, external backend, and the dispatch *)

\* A nil []byte; it differs from every byte string, the empty one included
NilBytes == <<"nil">>

Put(its, key, e) ==
    [k \in DOMAIN its \cup {key} |-> IF k = key THEN e ELSE its[k]]

Delete(its, key) == [k \in DOMAIN its \ {key} |-> its[k]]

GetResult(value, hit, err, its) ==
    [value |-> value, hit |-> hit, err |-> err, items |-> its]

SetResult(err, its) == [err |-> err, items |-> its]

\* A faulty variant: an entry is gone at its deadline, not after it
AfterOrAt(t, expiresAt) == t >= expiresAt

\* A faulty variant: no deadline is ever passed
NeverAfter(t, expiresAt) == FALSE

\* now.After(expiresAt)
After(t, expiresAt) == t > expiresAt

MemoryGet(its, key, t) ==
    IF key \notin DOMAIN its THEN GetResult(NilBytes, FALSE, FALSE, its)
    ELSE IF After(t, its[key].expiresAt)
         THEN GetResult(NilBytes, FALSE, FALSE, Delete(its, key))
         ELSE GetResult(its[key].value, TRUE, FALSE, its)

MemorySet(its, key, value, ttl, t) ==
    IF ttl <= 0 THEN SetResult(FALSE, Delete(its, key))
    ELSE SetResult(FALSE, Put(its, key, [value |-> value, expiresAt |-> t + ttl]))

\* cleanupExpired, one tick of the ticker
SweepExpired(its, t) ==
    [k \in {x \in DOMAIN its : ~After(t, its[x].expiresAt)} |-> its[k]]

RedisPrefix == <<"simmgate">>

RedisKey(prefix, k) == IF prefix = <<>> THEN k ELSE prefix \o <<":">> \o k

\* The store drops a key when its TTL has run out
StoreHas(its, rk, t) == rk \in DOMAIN its /\ t < its[rk].expiresAt

\* A faulty variant: every failure of the read is taken for a missing key
RedisGetFailOpen(its, key, t, ctxErr, fault) ==
    IF ctxErr \/ fault \/ ~StoreHas(its, RedisKey(RedisPrefix, key), t)
    THEN GetResult(NilBytes, FALSE, FALSE, its)
    ELSE GetResult(its[RedisKey(RedisPrefix, key)].value, TRUE, FALSE, its)

\* fault: the store call fails with an error other than redis.Nil
RedisGet(its, key, t, ctxErr, fault) ==
    IF ctxErr THEN GetResult(NilBytes, FALSE, TRUE, its)
    ELSE IF fault THEN GetResult(NilBytes, FALSE, TRUE, its)
    ELSE IF ~StoreHas(its, RedisKey(RedisPrefix, key), t)
         THEN GetResult(NilBytes, FALSE, FALSE, its)
         ELSE GetResult(its[RedisKey(RedisPrefix, key)].value, TRUE, FALSE, its)

RedisSet(its, key, value, ttl, t, ctxErr, fault) ==
    IF ctxErr THEN SetResult(TRUE, its)
    ELSE IF ttl <= 0 THEN SetResult(FALSE, its)
    ELSE IF fault THEN SetResult(TRUE, its)
    ELSE SetResult(FALSE, Put(its, RedisKey(RedisPrefix, key),
                              [value |-> value, expiresAt |-> t + ttl]))

\* NewExactCache picks the backend; LoggingExactCache returns the inner
\* results unchanged
CacheGet(backend, its, key, t, ctxErr, fault) ==
    IF backend = "redis" THEN RedisGet(its, key, t, ctxErr, fault)
    ELSE MemoryGet(its, key, t)

CacheSet(backend, its, key, value, ttl, t, ctxErr, fault) ==
    IF backend = "redis" THEN RedisSet(its, key, value, ttl, t, ctxErr, fault)
    ELSE MemorySet(its, key, value, ttl, t)

\* Only the external store can fail
Faults(backend) == IF backend = "redis" THEN BOOLEAN ELSE {FALSE}

----------------------------------------------------------------------------
(* Upstream: what one HTTP attempt can return *)

Choice(index, content, finish) ==
    [Index |-> index, Message |-> Msg(RoleAssistant, content), FinishReason |-> finish]

\* providerChatResponse bodies
ProviderFull ==
    [ID |-> "chatcmpl-1", Created |-> 1700000000, Model |-> "gpt-4",
     Choices |-> <<Choice(0, Content("hello!", 6), "stop")>>,
     Usage |-> <<[PromptTokens |-> 3, CompletionTokens |-> 2, TotalTokens |-> 5]>>]

ProviderSparse ==
    [ID |-> "", Created |-> 0, Model |-> "",
     Choices |-> <<Choice(0, Content("other", 5), "")>>, Usage |-> NilUsage]

ProviderNoChoices ==
    [ID |-> "chatcmpl-0", Created |-> 1700000000, Model |-> "gpt-4",
     Choices |-> <<>>, Usage |-> NilUsage]

HTTPResp(status, decodes, body) ==
    [kind |-> "resp", status |-> status, decodes |-> decodes, body |-> body,
     transient |-> FALSE]

NetErr(transient) ==
    [kind |-> "neterr", status |-> 0, decodes |-> FALSE, body |-> ProviderNoChoices,
     transient |-> transient]

CtxErr ==
    [kind |-> "ctxerr", status |-> 0, decodes |-> FALSE, body |-> ProviderNoChoices,
     transient |-> FALSE]

ConnectOutcomes ==
    {HTTPResp(200, TRUE, ProviderNoChoices), HTTPResp(400, TRUE, ProviderNoChoices),
     HTTPResp(503, TRUE, ProviderNoChoices), NetErr(TRUE), NetErr(FALSE), CtxErr}

----------------------------------------------------------------------------
(* Retry engine, as a function of the upstream's behaviour *)

\* A faulty variant: 408 is not retried
ShouldRetryStatusNo408(status) ==
    \/ status = 0
    \/ status = 429
    \/ status >= 500 /\ status <= 599

ShouldRetryStatus(status) ==
    \/ status = 0
    \/ status = 429
    \/ status = 408
    \/ status >= 500 /\ status <= 599

\* Config.WithDefaults
WithDefaultMaxRetries(n) == IF n <= 0 THEN DefaultMaxRetries ELSE n

\* A faulty variant: one attempt more than max_retries + 1
MaxAttemptsOneMore(maxRetries) == IF maxRetries + 2 < 1 THEN 1 ELSE maxRetries + 2

\* maxAttempts of doWithRetry
MaxAttempts(maxRetries) == IF maxRetries + 1 < 1 THEN 1 ELSE maxRetries + 1

RetryResult(err, resp, attempts) == [err |-> err, resp |-> resp, attempts |-> attempts]

\* script[i + 1] is what attempt i returns; the context is seen cancelled
\* from attempt index cancelAt on (at the top of the loop or in the sleep
\* before it)
RECURSIVE DoWithRetryFrom(_, _, _, _)
DoWithRetryFrom(script, maxAttempts, cancelAt, attempt) ==
    IF attempt >= maxAttempts THEN RetryResult("max retries exceeded", CtxErr, attempt)
    ELSE IF cancelAt <= attempt THEN RetryResult("context", CtxErr, attempt)
    ELSE LET o == script[attempt + 1] IN
        IF o.kind = "ctxerr" THEN RetryResult("context", o, attempt + 1)
        ELSE IF o.kind = "neterr" /\ ~o.transient
             THEN RetryResult("network", o, attempt + 1)
        ELSE IF o.kind = "resp" /\ ~ShouldRetryStatus(o.status)
             THEN RetryResult("", o, attempt + 1)
        ELSE IF attempt = maxAttempts - 1
             THEN RetryResult("max retries exceeded", o, attempt + 1)
        ELSE DoWithRetryFrom(script, maxAttempts, cancelAt, attempt + 1)

DoWithRetry(script, maxRetries, cancelAt) ==
    DoWithRetryFrom(script, MaxAttempts(maxRetries), cancelAt, 0)

\* The engine stops at an attempt that is not retried
Stops(o) ==
    \/ o.kind = "ctxerr"
    \/ o.kind = "neterr" /\ ~o.transient
    \/ o.kind = "resp" /\ ~ShouldRetryStatus(o.status)

\* Upstream behaviours over n attempts; what follows an attempt the engine
\* stops at is never asked for, so it repeats that attempt
Scripts(outcomes, n) ==
    {s \in SeqsOfLen(outcomes, n) : \A i \in 1..(n - 1) : Stops(s[i]) => s[i + 1] = s[i]}

ConnectScripts == Scripts(ConnectOutcomes, DefaultMaxRetries + 1)

----------------------------------------------------------------------------
(* Retry engine, step by step: the loop of doWithRetry and its sleeps.       *)
(* Durations are in units of 10 ms.                                          *)

\* The Retry-After header of a response.  "absent": no header; "int": a
\* decimal integer n that fits an int; "bigint": a decimal integer that does
\* not; "date": an HTTP-date n seconds from now; "text": anything else
Header(form, n) == [form |-> form, n |-> n]

\* strconv.Atoi: a value out of the range of int is an error
Atoi(hd) == [ok |-> hd.form = "int", n |-> IF hd.form = "int" THEN hd.n ELSE 0]

\* parseRetryAfter: the wait the header asks for, or 0
ParseRetryAfter(hd) ==
    IF hd.form = "absent" THEN 0
    ELSE IF Atoi(hd).ok /\ Atoi(hd).n > 0
    THEN (IF Atoi(hd).n > MaxRetryAfter THEN MaxRetryAfter ELSE Atoi(hd).n) * 100
    ELSE IF hd.form = "date" /\ hd.n > 0
    THEN (IF hd.n > MaxRetryAfter THEN MaxRetryAfter ELSE hd.n) * 100
    ELSE 0

RECURSIVE Pow2(_)
Pow2(n) == IF n = 0 THEN 1 ELSE 2 * Pow2(n - 1)

\* The ceiling of computeBackoff: base * 2^attempt, capped
MaxBackoff(base, attempt) ==
    LET b == IF base <= 0 THEN DefaultBaseBackoff ELSE base
        e == IF attempt > MaxExponent THEN MaxExponent ELSE attempt
    IN IF b > MaxAllowedBackoff \div Pow2(e) THEN MaxAllowedBackoff ELSE b * Pow2(e)

\* float64(base) * 2^attempt is more than an int64 of nanoseconds holds
BackoffOverflows(base, attempt) ==
    LET b == IF base <= 0 THEN DefaultBaseBackoff ELSE base
        e == IF attempt > MaxExponent THEN MaxExponent ELSE attempt
    IN b \div Pow2(MaxExponent - e) > MaxShiftedDuration

\* computeBackoff: rand.Float64() * maxBackoff, a duration below the ceiling;
\* the least and the greatest stand for the range.  time.Duration(x) of an x
\* out of range is whatever the platform's conversion gives: the greatest
\* int64, which the cap then replaces, or the least, which passes the cap
\* and makes the product negative (-1 stands for these)
ComputeBackoff(base, attempt) ==
    IF BackoffOverflows(base, attempt)
    THEN {0, MaxAllowedBackoff - 1, -1}
    ELSE {0, MaxBackoff(base, attempt) - 1}

\* What one attempt returns: the result of do(), the Retry-After header of
\* the response, and what the engine did with the response body
Answer(res, hd) == [res |-> res, retryAfter |-> hd, closed |-> FALSE, drained |-> FALSE]

\* A sleep of the engine: which wait it is, its timer, and what ended it
Sleep(kind, d) == [kind |-> kind, d |-> d, fired |-> FALSE, woke |-> ""]

\* The engine's locals at pc; resp is the place in trace of the response
\* returned, 0 for nil.  lastErr is <<>> for nil, else the place in trace of
\* the attempt it comes from and the status it names (0: the attempt's own
\* network error); wraps is the error inside the one returned.  cancelledIn and attemptsAtCancel record where the
\* engine was when its context was cancelled
StartRetry(pc, maxRetries, base, cancelled) ==
    [pc |-> pc, maxRetries |-> maxRetries, base |-> base, attempt |-> 0,
     cancelled |-> cancelled, cancelledIn |-> IF cancelled THEN "entry" ELSE "",
     attemptsAtCancel |-> 0,
     trace |-> <<>>, sleeps |-> 0, sleep |-> Sleep("none", 0),
     err |-> "", resp |-> 0, lastErr |-> <<>>, wraps |-> <<>>]

\* A faulty variant: the exhaustion error carries no cause
RetryReturnBare(e, err, resp) == [e EXCEPT !.pc = "returned", !.err = err, !.resp = resp]

\* return resp, err; the exhaustion error wraps lastErr, or a stand-in
RetryReturn(e, err, resp) ==
    [e EXCEPT !.pc = "returned", !.err = err, !.resp = resp,
              !.wraps = IF err # "max retries exceeded" THEN <<>>
                        ELSE IF e.lastErr = <<>> THEN <<"unknown upstream error">>
                        ELSE e.lastErr]

\* The loop condition and the ctx.Err() check before an attempt
RetryTop ==
    /\ rt.pc = "top"
    /\ rt' = IF rt.attempt >= MaxAttempts(rt.maxRetries)
             THEN RetryReturn(rt, "max retries exceeded", 0)
             ELSE IF rt.cancelled THEN RetryReturn(rt, "context", 0)
             ELSE [rt EXCEPT !.pc = "do"]
    /\ UNCHANGED <<now, cfg, items, h, st, hist, fn, mc>>

\* A faulty variant: the backoff sleep is taken after the last attempt too
AlwaysBackoff(e, d) ==
    [e EXCEPT !.pc = "sleep", !.sleep = Sleep("backoff", d), !.sleeps = @ + 1]

\* After a transient failure, or a retryable status with no Retry-After
\* wait: give up at the last attempt, or sleep for the backoff d
AfterRetryable(e, d) ==
    IF e.attempt = MaxAttempts(e.maxRetries) - 1
    THEN RetryReturn(e, "max retries exceeded", 0)
    ELSE [e EXCEPT !.pc = "sleep", !.sleep = Sleep("backoff", d), !.sleeps = @ + 1]

\* A faulty variant: every network error is retried
AnyNetErrorTransient(res) == TRUE

\* isTransientNetError, on the classification the upstream's error carries
IsTransientNetError(res) == res.transient

\* What the engine does with what an attempt returned
AfterAttempt(e, o, d) ==
    LET t == [e EXCEPT !.trace = Append(@, o)]
        n == Len(e.trace) + 1
    IN IF o.res.kind = "ctxerr" THEN RetryReturn(t, "context", 0)
       ELSE IF o.res.kind = "neterr" /\ ~IsTransientNetError(o.res)
       THEN RetryReturn(t, "network", 0)
       ELSE IF o.res.kind = "neterr" THEN AfterRetryable([t EXCEPT !.lastErr = <<n, 0>>], d)
       ELSE IF ~ShouldRetryStatus(o.res.status) THEN RetryReturn(t, "", n)
       ELSE LET c == [t EXCEPT !.trace[n].closed = TRUE, !.lastErr = <<n, o.res.status>>]
                ra == ParseRetryAfter(o.retryAfter)
            IN IF ra > 0 /\ e.attempt < MaxAttempts(e.maxRetries) - 1
               THEN [c EXCEPT !.pc = "sleep", !.sleep = Sleep("retry-after", ra),
                              !.sleeps = @ + 1]
               ELSE AfterRetryable(c, d)

\* One attempt, do(ctx, body), and everything up to the return or the sleep.
\* An attempt fails with the context's error only if the context is done
RetryDo(outcomes) ==
    /\ rt.pc = "do"
    /\ \E o \in outcomes, d \in ComputeBackoff(rt.base, rt.attempt) :
         /\ o.res.kind = "ctxerr" => rt.cancelled
         /\ rt' = AfterAttempt(rt, o, d)
    /\ UNCHANGED <<now, cfg, items, h, st, hist, fn, mc>>

\* time.After: the duration of the sleep has passed
RetryTimer ==
    /\ rt.pc = "sleep"
    /\ ~rt.sleep.fired
    /\ rt' = [rt EXCEPT !.sleep.fired = TRUE]
    /\ UNCHANGED <<now, cfg, items, h, st, hist, fn, mc>>

\* A faulty variant: the sleep waits for its timer only
SleepUninterruptible(e) == IF e.sleep.fired THEN {"timer"} ELSE {}

\* The cases of the sleep's select that are ready
SleepSelect(e) ==
    {w \in {"ctx", "timer"} : \/ w = "ctx" /\ e.cancelled
                              \/ w = "timer" /\ e.sleep.fired}

\* The select of a sleep takes a ready case
RetryWake ==
    /\ rt.pc = "sleep"
    /\ \E w \in SleepSelect(rt) :
         rt' = IF w = "ctx"
               THEN RetryReturn([rt EXCEPT !.sleep.woke = "ctx"], "context", 0)
               ELSE [rt EXCEPT !.pc = "top", !.attempt = @ + 1, !.sleep.woke = "timer"]
    /\ UNCHANGED <<now, cfg, items, h, st, hist, fn, mc>>

\* The caller's context is cancelled or reaches its deadline
RetryCancel ==
    /\ rt.pc \in {"top", "do", "sleep"}
    /\ ~rt.cancelled
    /\ rt' = [rt EXCEPT !.cancelled = TRUE, !.cancelledIn = rt.pc,
                        !.attemptsAtCancel = Len(rt.trace)]
    /\ UNCHANGED <<now, cfg, items, h, st, hist, fn, mc>>

----------------------------------------------------------------------------
(* Upstream client, unary *)

\* len(json.Marshal(providerChatRequest)), JSON syntax included (numbers of
\* one digit, or one digit and one decimal)
RECURSIVE MessagesLen(_, _)
MessagesLen(msgs, i) ==
    IF i > Len(msgs) THEN 0
    ELSE 24 + (CASE msgs[i].Role = RoleSystem -> 6
                 [] msgs[i].Role = RoleUser -> 4
                 [] msgs[i].Role = RoleAssistant -> 9
                 [] OTHER -> 5)
            + msgs[i].Content.Len
            + (IF i < Len(msgs) THEN 1 ELSE 0)
            + MessagesLen(msgs, i + 1)

TenthsLen(x) == IF x % 10 = 0 THEN 1 ELSE 3

ProviderBodyLen(r, stream) ==
    10 + Len(r.Model) + 14 + MessagesLen(r.Messages, 1) + 1
       + (IF r.Temperature # 0 THEN 15 + TenthsLen(r.Temperature) ELSE 0)
       + (IF r.TopP # 0 THEN 9 + TenthsLen(r.TopP) ELSE 0)
       + (IF r.MaxTokens # 0 THEN 15 ELSE 0)
       + (IF stream THEN 14 ELSE 0)
       + 1

\* A faulty variant: a message of exactly the limit is refused
PreflightAtLimit(r) ==
    IF Validate(r) # "" THEN "invalid request"
    ELSE IF \E i \in 1..Len(r.Messages) : r.Messages[i].Content.Len >= MaxMessageSize
         THEN "message too large"
    ELSE ""

\* The checks both client operations run before anything else
Preflight(r) ==
    IF Validate(r) # "" THEN "invalid request"
    ELSE IF \E i \in 1..Len(r.Messages) : r.Messages[i].Content.Len > MaxMessageSize
         THEN "message too large"
    ELSE ""

MapProviderResponse(p) ==
    [ID |-> p.ID, Created |-> p.Created, Model |-> p.Model,
     Choices |-> p.Choices,
     Usage |-> IF p.Usage = NilUsage
               THEN <<[PromptTokens |-> 0, CompletionTokens |-> 0, TotalTokens |-> 0]>>
               ELSE p.Usage]

\* No HTTP attempt was made
NoAttempt ==
    [kind |-> "none", status |-> 0, decodes |-> FALSE, body |-> ProviderNoChoices,
     transient |-> FALSE]

\* What the caller gets (err, resp), and for the record the number of HTTP
\* attempts and what the last one returned
UnaryResult(err, resp, attempts, last) ==
    [err |-> err, resp |-> resp, attempts |-> attempts, last |-> last]

\* client.ChatCompletion
ClientChatCompletion(r, script, maxRetries, cancelAt) ==
    IF Preflight(r) # "" THEN UnaryResult(Preflight(r), NilResponse, 0, NoAttempt)
    ELSE IF ProviderBodyLen(r, FALSE) > MaxRequestSize
         THEN UnaryResult("request too large", NilResponse, 0, NoAttempt)
    ELSE LET got == DoWithRetry(script, maxRetries, cancelAt)
             last == IF got.attempts = 0 THEN NoAttempt ELSE got.resp
         IN
        IF got.err # "" THEN UnaryResult(got.err, NilResponse, got.attempts, last)
        ELSE IF got.resp.status < 200 \/ got.resp.status >= 300
             THEN UnaryResult("upstream status", NilResponse, got.attempts, last)
        ELSE IF ~got.resp.decodes
             THEN UnaryResult("decode upstream response", NilResponse, got.attempts, last)
        ELSE IF Len(got.resp.body.Choices) = 0
             THEN UnaryResult("provider returned no choices", NilResponse, got.attempts,
                              last)
        ELSE UnaryResult("", MapProviderResponse(got.resp.body), got.attempts, last)

\* client.ChatCompletionStream up to the end of the initial exchange: the
\* error it returns, the error its goroutine sends instead, the HTTP attempts
ClientChatCompletionStream(r, script, maxRetries, cancelAt) ==
    IF Preflight(r) # "" THEN [err |-> Preflight(r), sent |-> "", attempts |-> 0]
    ELSE IF ProviderBodyLen(r, TRUE) > MaxRequestSize
         THEN [err |-> "", sent |-> "request too large", attempts |-> 0]
    ELSE LET got == DoWithRetry(script, maxRetries, cancelAt)
         IN [err |-> "", sent |-> got.err, attempts |-> got.attempts]

----------------------------------------------------------------------------
(* Requests the clients send *)

GPT4 == <<"g", "p", "t">>
Hi == Content("hi", 2)
Huge == Content("huge", MaxMessageSize + 1)

GoodRequest == [ZeroRequest EXCEPT !.Model = GPT4, !.Messages = <<Msg(RoleUser, Hi)>>]

UserHeaders == {<<>>, <<"u">>}

Input(jsonOK, r, user, flusher) ==
    [json_ok |-> jsonOK, req |-> r, user |-> user, flusher |-> flusher]

NoInput == Input(FALSE, ZeroRequest, <<>>, TRUE)

----------------------------------------------------------------------------
(* Upstream SSE bodies *)

\* One choice of a providerStreamChunk
Delta(index, content, finish) == [Index |-> index, Content |-> content, Finish |-> finish]

Line(kind, choices) == [kind |-> kind, choices |-> choices]

\* "blank": empty after trimming; "comment": no "data: " prefix; "done": the
\* [DONE] payload; "badjson": a data payload that is not a chunk; "data": a
\* chunk with its choices
SSELines ==
    {Line("blank", <<>>), Line("comment", <<>>), Line("done", <<>>),
     Line("badjson", <<>>),
     Line("data", <<Delta(0, "hel", "")>>),
     Line("data", <<Delta(0, "lo", "stop")>>),
     Line("data", <<Delta(0, "", ""), Delta(1, "", "stop")>>)}

\* The lines the upstream sends, and how the body ends after them: "eof", or
\* "error" for a read error that is not EOF
SSEBody(lines, ending) == [lines |-> lines, ending |-> ending]

SSEBodies(maxLines) ==
    {SSEBody(ls, e) :
        ls \in UNION {SeqsOfLen(SSELines, n) : n \in 0..maxLines}, e \in {"eof", "error"}}

\* The two-delta stream of the handler and client tests, and one that breaks
ShortBodies ==
    {SSEBody(<<Line("data", <<Delta(0, "hel", "")>>), Line("done", <<>>)>>, "eof"),
     SSEBody(<<Line("data", <<Delta(0, "lo", "stop")>>)>>, "error")}

StreamRequests ==
    {[GoodRequest EXCEPT !.Stream = TRUE],
     [GoodRequest EXCEPT !.Stream = TRUE, !.Model = <<>>]}

StreamInputs ==
    {Input(TRUE, b, <<"u">>, f) : b \in StreamRequests, f \in BOOLEAN}

----------------------------------------------------------------------------
(* Upstream client, stream: the decoder goroutine and its channel *)

StreamChunk(index, delta, finish) ==
    [Index |-> index, Delta |-> delta, FinishReason |-> finish]

NilChunk == <<>>

\* StreamResult: Chunk is a one-element sequence, or empty for nil.  Of a
\* stream, ch is the channel and sent every result ever sent on it
ChunkResult(c) == [Chunk |-> <<c>>, Err |-> ""]
ErrResult(e) == [Chunk |-> NilChunk, Err |-> e]

NoStream ==
    [dpc |-> "none", timedOut |-> FALSE, cancelCalls |-> 0,
     ch |-> <<>>, sent |-> <<>>, closed |-> FALSE, chanCloses |-> 0,
     body |-> SSEBody(<<>>, "eof"), pos |-> 0, pending |-> <<>>, pendingErr |-> "",
     bodyState |-> "none", bodyCloses |-> 0,
     connectErr |-> "", exitWhy |-> "",
     sink |-> <<>>, relayExit |-> "", writeFailed |-> FALSE]

\* The derived context: done when the parent is cancelled, the upstream
\* timeout fires, or cancel() has run
CtxDone(r) == h[r].cancelled \/ st[r].timedOut \/ st[r].cancelCalls > 0

\* A faulty variant: the goroutine returns and leaves the response body open
DecoderExitBodyOpen(sr, why) ==
    [sr EXCEPT !.dpc = "exited", !.exitWhy = why,
               !.cancelCalls = @ + 1,
               !.closed = TRUE, !.chanCloses = @ + 1]

\* The deferred calls of the goroutine, in the order they run: Body.Close
\* (once the response is there), cancel(), close(results)
DecoderExit(sr, why) ==
    [sr EXCEPT !.dpc = "exited", !.exitWhy = why,
               !.bodyState = IF @ = "open" THEN "closed" ELSE @,
               !.bodyCloses = IF sr.bodyState = "open" THEN @ + 1 ELSE @,
               !.cancelCalls = @ + 1,
               !.closed = TRUE, !.chanCloses = @ + 1]

\* results <- StreamResult{Err: ...}; return.  The send has no select: it
\* waits for room in the channel
DecoderFail(sr, e) == [sr EXCEPT !.dpc = "send_err", !.pendingErr = e]

\* Marshal, size guard, connect with retries, status check
DecoderConnect(r, bodies, scripts) ==
    /\ st[r].dpc = "connect"
    /\ \E body \in bodies, script \in scripts,
          cancelAt \in 0..(DefaultMaxRetries + 1) :
         /\ CtxDone(r) => cancelAt = 0
         /\ LET got == DoWithRetry(script, WithDefaultMaxRetries(0), cancelAt)
            IN st' = [st EXCEPT ![r] =
                 IF ProviderBodyLen(h[r].in.req, TRUE) > MaxRequestSize
                 THEN DecoderFail([@ EXCEPT !.connectErr = "request too large"],
                                  "request too large")
                 ELSE IF got.err # ""
                 THEN DecoderFail([@ EXCEPT !.connectErr = got.err], got.err)
                 ELSE IF got.resp.status < 200 \/ got.resp.status >= 300
                 THEN DecoderFail([@ EXCEPT !.connectErr = "upstream status",
                                            !.bodyState = "open"],
                                  "upstream status")
                 ELSE [@ EXCEPT !.bodyState = "open", !.body = body, !.dpc = "check"]]
    /\ UNCHANGED <<mc, fn, rt, now, cfg, items, h, hist>>

DecoderSendErr(r) ==
    /\ st[r].dpc = "send_err"
    /\ Len(st[r].ch) < StreamBuffer
    /\ st' = [st EXCEPT ![r] =
            DecoderExit([@ EXCEPT !.ch = Append(@, ErrResult(st[r].pendingErr)),
                                  !.sent = Append(@, ErrResult(st[r].pendingErr))],
                        "error")]
    /\ UNCHANGED <<mc, fn, rt, now, cfg, items, h, hist>>

\* Top of the read loop: select on ctx.Done with a default
DecoderCheck(r) ==
    /\ st[r].dpc = "check"
    /\ st' = [st EXCEPT ![r] =
            IF CtxDone(r) THEN DecoderExit(@, "cancelled") ELSE [@ EXCEPT !.dpc = "read"]]
    /\ UNCHANGED <<mc, fn, rt, now, cfg, items, h, hist>>

\* A faulty variant: the [DONE] payload does not end the stream
DecodeLinePastDone(sr, line) ==
    CASE line.kind \in {"blank", "comment", "done"} -> [sr EXCEPT !.dpc = "check"]
      [] line.kind = "badjson" -> DecoderFail(sr, "unmarshal stream chunk")
      [] OTHER -> [sr EXCEPT !.dpc = "emit", !.pending = line.choices]

\* What the decoder does with one line it has read
DecodeLine(sr, line) ==
    CASE line.kind = "blank" -> [sr EXCEPT !.dpc = "check"]
      [] line.kind = "comment" -> [sr EXCEPT !.dpc = "check"]
      [] line.kind = "done" -> DecoderExit(sr, "done")
      [] line.kind = "badjson" -> DecoderFail(sr, "unmarshal stream chunk")
      [] OTHER -> [sr EXCEPT !.dpc = "emit", !.pending = line.choices]

\* reader.ReadBytes: the next line, the end of the body, or a read error; a
\* read that is cut by the cancelled context is a read error too
DecoderRead(r) ==
    /\ st[r].dpc = "read"
    /\ \/ /\ st[r].pos < Len(st[r].body.lines)
          /\ st' = [st EXCEPT ![r] =
                  DecodeLine([@ EXCEPT !.pos = @ + 1], st[r].body.lines[st[r].pos + 1])]
       \/ /\ st[r].pos = Len(st[r].body.lines)
          /\ st' = [st EXCEPT ![r] =
                  IF st[r].body.ending = "eof" THEN DecoderExit(@, "eof")
                  ELSE DecoderFail(@, "read stream line")]
       \/ /\ CtxDone(r)
          /\ st' = [st EXCEPT ![r] = DecoderFail(@, "read stream line")]
    /\ UNCHANGED <<mc, fn, rt, now, cfg, items, h, hist>>

\* A faulty variant: a choice without content is skipped
SkippedContentOnly(c) == c.Content = ""

\* A choice with neither content nor finish_reason is skipped
Skipped(c) == c.Content = "" /\ c.Finish = ""

\* One turn of the loop over the choices of a chunk
DecoderEmit(r) ==
    /\ st[r].dpc = "emit"
    /\ IF st[r].pending = <<>>
       THEN st' = [st EXCEPT ![r].dpc = "check"]
       ELSE LET c == Head(st[r].pending) IN
            IF Skipped(c)
            THEN st' = [st EXCEPT ![r].pending = Tail(@)]
            ELSE \/ /\ CtxDone(r)
                    /\ st' = [st EXCEPT ![r] = DecoderExit(@, "cancelled")]
                 \/ /\ Len(st[r].ch) < StreamBuffer
                    /\ st' = [st EXCEPT ![r].pending = Tail(@),
                                        ![r].ch = Append(@,
                                            ChunkResult(StreamChunk(c.Index, c.Content,
                                                                    c.Finish))),
                                        ![r].sent = Append(@,
                                            ChunkResult(StreamChunk(c.Index, c.Content,
                                                                    c.Finish)))]
    /\ UNCHANGED <<mc, fn, rt, now, cfg, items, h, hist>>

\* The UpstreamTimeout deadline of the derived context
UpstreamDeadline(r) ==
    /\ st[r].dpc \notin {"none", "exited"}
    /\ ~st[r].timedOut
    /\ st' = [st EXCEPT ![r].timedOut = TRUE]
    /\ UNCHANGED <<mc, fn, rt, now, cfg, items, h, hist>>

----------------------------------------------------------------------------
(* Chat handler, non-streaming path *)

NoBody == <<>>

IdleHandler ==
    [pc |-> "idle", in |-> NoInput, cancelled |-> FALSE,
     userID |-> <<>>, modelID |-> <<>>, versionID |-> <<>>,
     cacheKey |-> <<>>, cacheHit |-> FALSE, resp |-> NilResponse, llmErr |-> "",
     status |-> 0, contentType |-> "", body |-> NoBody, headerWrites |-> 0,
     getCalls |-> 0, setCalls |-> 0, getHit |-> FALSE, getErr |-> FALSE, setErr |-> FALSE,
     getAt |-> -1, setAt |-> -1, prior |-> <<>>, mw |-> "", mwSaw |-> 0,
     unaryCalls |-> 0, streamCalls |-> 0, attempts |-> 0, last |-> NoAttempt]

\* A faulty variant: the handler goes on after writeJSON
WriteJSONNoReturn(hr, v) ==
    [hr EXCEPT !.status = 200, !.contentType = "application/json",
               !.body = MarshalResponse(v), !.headerWrites = @ + 1]

\* writeJSON: no WriteHeader, so the first write sends 200
WriteJSON(hr, v) ==
    [hr EXCEPT !.pc = "done", !.status = 200, !.contentType = "application/json",
               !.body = MarshalResponse(v), !.headerWrites = @ + 1]

WriteErrorJSON(hr, status, msg) ==
    [hr EXCEPT !.pc = "done", !.status = status, !.contentType = "application/json",
               !.body = ErrorBody(msg), !.headerWrites = @ + 1]

\* A faulty variant: no request is routed to the streaming path
NeverStream(r) == FALSE

\* Where a decoded request goes
IsStream(r) == r.Stream

\* A request arrives; the handler decodes the body, fills in the identity
\* fallbacks and routes on stream
HandleParse(r, in) ==
    /\ h[r].pc \in {"idle", "done"}
    /\ st[r].dpc \in {"none", "exited"}
    /\ h' = [h EXCEPT ![r] =
            IF ~in.json_ok
            THEN WriteErrorJSON([IdleHandler EXCEPT !.in = in], 400, "invalid_json")
            ELSE [IdleHandler EXCEPT !.in = in,
                           !.modelID = IF in.req.Model = <<>> THEN UnknownModel
                                       ELSE in.req.Model,
                           !.userID = IF in.user = <<>> THEN Anon ELSE in.user,
                           !.versionID = IF cfg.VersionID = <<>> THEN V1
                                         ELSE cfg.VersionID,
                           !.pc = IF IsStream(in.req) THEN "stream" ELSE "lookup"]]
    /\ st' = [st EXCEPT ![r] = NoStream]
    /\ hist' = [hist EXCEPT !.count = @ + 1]
    /\ UNCHANGED <<mc, fn, rt, now, cfg, items>>

\* A faulty variant: a hit that does not decode fails the request
AfterGetStrict(hr, key, got, t) ==
    LET seen == [hr EXCEPT !.cacheKey = key, !.getCalls = @ + 1, !.getHit = got.hit,
                           !.getErr = got.err, !.getAt = t]
    IN IF got.hit /\ UnmarshalResponse(got.value).ok
       THEN WriteJSON([seen EXCEPT !.cacheHit = TRUE,
                                   !.resp = UnmarshalResponse(got.value).resp],
                      UnmarshalResponse(got.value).resp)
       ELSE IF got.hit THEN WriteErrorJSON(seen, 502, "upstream_error")
       ELSE [seen EXCEPT !.pc = "upstream"]

\* What the handler does with the result of Cache.Get
AfterGet(hr, key, got, t) ==
    LET seen == [hr EXCEPT !.cacheKey = key, !.getCalls = @ + 1, !.getHit = got.hit,
                           !.getErr = got.err, !.getAt = t]
    IN IF got.hit /\ UnmarshalResponse(got.value).ok
       THEN WriteJSON([seen EXCEPT !.cacheHit = TRUE,
                                   !.resp = UnmarshalResponse(got.value).resp],
                      UnmarshalResponse(got.value).resp)
       ELSE [seen EXCEPT !.pc = "upstream"]

\* Build the key and look it up; a hit that decodes is the response
HandleCacheLookup(r) ==
    /\ h[r].pc = "lookup"
    /\ LET kb == BuildExactCacheKeyFromChatRequest(h[r].in.req, h[r].userID, h[r].versionID)
       IN IF kb.err
          THEN /\ h' = [h EXCEPT ![r].pc = "upstream"]
               /\ UNCHANGED items
          ELSE \E fault \in Faults(cfg.Backend) :
                 LET got == CacheGet(cfg.Backend, items, KeyString(kb.key), now,
                                     h[r].cancelled, fault)
                 IN /\ items' = got.items
                    /\ h' = [h EXCEPT ![r] =
                           [AfterGet(@, KeyString(kb.key), got, now)
                              EXCEPT !.prior = IF KeyString(kb.key) \in DOMAIN hist.stored
                                               THEN <<hist.stored[KeyString(kb.key)]>>
                                               ELSE <<>>]]
    /\ UNCHANGED <<mc, fn, rt, now, cfg, st, hist>>

\* A faulty variant: the handler goes on to the write-back whatever the
\* upstream call returned
AfterUnaryLenient(hr, out) ==
    [hr EXCEPT !.unaryCalls = @ + 1, !.attempts = @ + out.attempts, !.last = out.last,
               !.llmErr = out.err, !.resp = out.resp, !.pc = "store"]

\* What the handler does with the result of LLM.ChatCompletion
AfterUnary(hr, out) ==
    LET called == [hr EXCEPT !.unaryCalls = @ + 1, !.attempts = @ + out.attempts,
                             !.last = out.last, !.llmErr = out.err]
    IN IF out.err # ""
       THEN WriteErrorJSON(called, 502, "upstream_error")
       ELSE [called EXCEPT !.resp = out.resp, !.pc = "store"]

\* The unary upstream call, with the request's own context
HandleUpstream(r, scripts) ==
    /\ h[r].pc = "upstream"
    /\ \E script \in scripts,
          cancelAt \in 0..(DefaultMaxRetries + 1) :
         /\ h[r].cancelled => cancelAt = 0
         /\ h' = [h EXCEPT ![r] =
                AfterUnary(@, ClientChatCompletion(h[r].in.req, script,
                                                   WithDefaultMaxRetries(0), cancelAt))]
    /\ UNCHANGED <<mc, fn, rt, now, cfg, items, st, hist>>

\* A faulty variant: a failed write-back fails the request
AfterSetStrict(hr, put, t) ==
    IF put.err
    THEN WriteErrorJSON([hr EXCEPT !.setCalls = @ + 1, !.setErr = TRUE, !.setAt = t],
                        502, "upstream_error")
    ELSE WriteJSON([hr EXCEPT !.setCalls = @ + 1, !.setAt = t], hr.resp)

\* What the handler does with the result of Cache.Set
AfterSet(hr, put, t) ==
    WriteJSON([hr EXCEPT !.setCalls = @ + 1, !.setErr = put.err, !.setAt = t], hr.resp)

\* Write-back (when a key was built) and the 200 response
HandleStore(r) ==
    /\ h[r].pc = "store"
    /\ IF h[r].cacheKey # <<>>
       THEN \E fault \in Faults(cfg.Backend) :
              LET put == CacheSet(cfg.Backend, items, h[r].cacheKey,
                                  MarshalResponse(h[r].resp), cfg.CacheTTL, now,
                                  h[r].cancelled, fault)
              IN /\ items' = put.items
                 /\ h' = [h EXCEPT ![r] = AfterSet(@, put, now)]
                 /\ hist' = [hist EXCEPT !.stored =
                        Put(@, h[r].cacheKey,
                            [body |-> MarshalResponse(h[r].resp), at |-> now])]
       ELSE /\ h' = [h EXCEPT ![r] = WriteJSON(@, h[r].resp)]
            /\ UNCHANGED <<items, hist>>
    /\ UNCHANGED <<mc, fn, rt, now, cfg, st>>

----------------------------------------------------------------------------
(* Environment: the request context, the clock, the sweeper *)

InFlight(r) == h[r].pc \notin {"idle", "done"}

\* The client goes away or the timeout middleware fires
Cancel(r) ==
    /\ InFlight(r)
    /\ ~h[r].cancelled
    /\ h' = [h EXCEPT ![r].cancelled = TRUE]
    /\ UNCHANGED <<mc, fn, rt, now, cfg, items, st, hist>>

Tick ==
    /\ now < MaxTime
    /\ now' = now + 1
    /\ UNCHANGED <<mc, fn, rt, cfg, items, h, st, hist>>

\* The in-process backend's background sweep
Sweep ==
    /\ cfg.Backend = "memory"
    /\ items' = SweepExpired(items, now)
    /\ items' # items
    /\ UNCHANGED <<mc, fn, rt, now, cfg, h, st, hist>>

----------------------------------------------------------------------------
(* The in-process cache as an object shared by goroutines: Get with its   *)
(* lock upgrade, Set, the sweeper goroutine and Close                      *)

MaxCloses == 2

Miss == [value |-> NilBytes, hit |-> FALSE, err |-> FALSE]

\* NewMemoryExactCache: the sweeper runs, the stop channel is open.  get is
\* the Get in flight (snap: the entry read under RLock, t: time.Now() of the
\* call; began, last, raced: when it was called, the last Set of its key
\* completed by then, whether a Set of its key ran during it), ret its result,
\* sets the last Set of every key that stored an entry
StartCache ==
    [get |-> [pc |-> "idle", key |-> <<>>, snap |-> <<>>, t |-> 0,
              began |-> 0, last |-> <<>>, raced |-> FALSE],
     ret |-> Miss, sets |-> <<>>,
     sweeper |-> "running", tick |-> FALSE,
     once |-> FALSE, stopCloses |-> 0, closeCalls |-> 0, held |-> {}]

\* Get, under RLock: read the entry
GetBegin(keys) ==
    /\ mc.get.pc \in {"idle", "done"}
    /\ \E k \in keys :
         LET g == [pc |-> "check", key |-> k, snap |-> <<>>, t |-> now, began |-> now,
                   last |-> IF k \in DOMAIN mc.sets THEN <<mc.sets[k]>> ELSE <<>>,
                   raced |-> FALSE]
         IN mc' = IF k \notin DOMAIN items
                  THEN [mc EXCEPT !.get = [g EXCEPT !.pc = "done"], !.ret = Miss]
                  ELSE [mc EXCEPT !.get = [g EXCEPT !.snap = <<items[k]>>]]
    /\ UNCHANGED <<now, cfg, items, h, st, hist, rt, fn>>

\* Get, no lock held: time.Now() and the deadline of the entry read
GetCheck ==
    /\ mc.get.pc = "check"
    /\ mc' = IF After(now, mc.get.snap[1].expiresAt)
             THEN [mc EXCEPT !.get.pc = "lock", !.get.t = now]
             ELSE [mc EXCEPT !.get.pc = "done", !.get.t = now,
                             !.ret = [value |-> mc.get.snap[1].value,
                                      hit |-> TRUE, err |-> FALSE]]
    /\ UNCHANGED <<now, cfg, items, h, st, hist, rt, fn>>

\* A faulty variant: Get deletes what it saw expired without looking again
FoundUnderLock(its, key, t) == key \in DOMAIN its

\* Get, under Lock: the entry now stored is looked at again
ExpiredUnderLock(its, key, t) == key \in DOMAIN its /\ After(t, its[key].expiresAt)

GetDelete ==
    /\ mc.get.pc = "lock"
    /\ items' = IF ExpiredUnderLock(items, mc.get.key, mc.get.t)
                THEN Delete(items, mc.get.key) ELSE items
    /\ mc' = [mc EXCEPT !.get.pc = "done", !.ret = Miss]
    /\ UNCHANGED <<now, cfg, h, st, hist, rt, fn>>

\* Set, from another goroutine
SetCall(keys, values, ttls) ==
    \E k \in keys, v \in values, ttl \in ttls :
        /\ items' = MemorySet(items, k, v, ttl, now).items
        /\ mc' = [mc EXCEPT
                    !.sets = IF ttl <= 0 THEN Delete(@, k) ELSE Put(@, k, items'[k]),
                    !.get.raced = @ \/ (mc.get.pc \in {"check", "lock"} /\ mc.get.key = k)]
        /\ UNCHANGED <<now, cfg, h, st, hist, rt, fn>>

\* The ticker puts a tick in its channel
TickerFire ==
    /\ mc.sweeper = "running" /\ ~mc.tick
    /\ mc' = [mc EXCEPT !.tick = TRUE]
    /\ UNCHANGED <<now, cfg, items, h, st, hist, rt, fn>>

\* cleanupExpired, case <-ticker.C
SweeperSweep ==
    /\ mc.sweeper = "running" /\ mc.tick
    /\ items' = SweepExpired(items, now)
    /\ mc' = [mc EXCEPT !.tick = FALSE]
    /\ UNCHANGED <<now, cfg, h, st, hist, rt, fn>>

\* cleanupExpired, case <-c.stopCleanup
SweeperStop ==
    /\ mc.sweeper = "running" /\ mc.stopCloses > 0
    /\ mc' = [mc EXCEPT !.sweeper = "stopped", !.tick = FALSE]
    /\ UNCHANGED <<now, cfg, items, h, st, hist, rt, fn>>

\* A faulty variant: Close closes the stop channel on every call
EveryCall(done) == TRUE

\* sync.Once: the function runs on the first Do only
FirstCall(done) == ~done

Close ==
    /\ mc.closeCalls < MaxCloses
    /\ mc' = [mc EXCEPT !.closeCalls = @ + 1, !.once = TRUE,
                        !.stopCloses = IF FirstCall(mc.once) THEN @ + 1 ELSE @]
    /\ UNCHANGED <<now, cfg, items, h, st, hist, rt, fn>>


\* Which operations leave the caller with a slice that is the stored one: Set
\* stores a copy made with make and copy, Get returns entry.value itself
SharesStoredBytes(op) == op = "Get"

\* A caller's Set.  The entry is a new slice: whoever held the old one holds
\* it still, but the cache does not
CallerSet(keys, values) ==
    \E k \in keys, v \in values :
        /\ items' = MemorySet(items, k, v, TTLTicks, now).items
        /\ mc' = [mc EXCEPT !.sets = Put(@, k, items'[k]),
                            !.held = (@ \ {k}) \cup
                                     (IF SharesStoredBytes("Set") THEN {k} ELSE {})]
        /\ UNCHANGED <<now, cfg, h, st, hist, rt, fn>>

\* A caller's Get; the caller keeps what it returns
CallerGet(keys) ==
    \E k \in keys :
        LET got == MemoryGet(items, k, now)
        IN /\ items' = got.items
           /\ mc' = [mc EXCEPT !.get.pc = "done", !.get.key = k, !.get.t = now,
                               !.get.last = IF k \in DOMAIN mc.sets THEN <<mc.sets[k]>>
                                            ELSE <<>>,
                               !.ret = [value |-> got.value, hit |-> got.hit, err |-> got.err],
                               !.held = IF got.hit /\ SharesStoredBytes("Get") THEN @ \cup {k}
                                        ELSE @ \cap DOMAIN got.items]
           /\ UNCHANGED <<now, cfg, h, st, hist, rt, fn>>

\* A caller writes into a slice it holds
CallerWrite(values) ==
    \E k \in mc.held \cap DOMAIN items, v \in values :
        /\ items[k].value # v
        /\ items' = [items EXCEPT ![k].value = v]
        /\ UNCHANGED <<now, cfg, h, st, hist, rt, fn, mc>>

----------------------------------------------------------------------------
(* Chat handler, streaming path *)

\* JSON objects are functions of the fields that are present
StreamDeltaJSON(content) == IF content = "" THEN <<>> ELSE [content |-> content]

StreamChoiceJSON(c) ==
    IF c.FinishReason = ""
    THEN [index |-> c.Index, delta |-> StreamDeltaJSON(c.Delta)]
    ELSE [index |-> c.Index, delta |-> StreamDeltaJSON(c.Delta),
          finish_reason |-> c.FinishReason]

StreamResponseJSON(c) == [choices |-> <<StreamChoiceJSON(c)>>]

Flushed == [ev |-> "flush", kind |-> "", json |-> <<>>]
Frame(kind, json) == [ev |-> "frame", kind |-> kind, json |-> json]
DoneFrame == Frame("done", <<>>)
ErrorFrame == Frame("error", ErrorBody("upstream_error"))

\* A write to the sink that fails leaves nothing in it
Written(sink, ok, frame) == IF ok THEN Append(sink, frame) ELSE sink

\* A faulty variant: every response writer is taken to flush
AnyWriterFlushes(in) == TRUE

\* flusher, ok := w.(http.Flusher)
CanFlush(in) == in.flusher

\* The flusher check, the call of ChatCompletionStream, and the headers
StreamBegin(r) ==
    /\ h[r].pc = "stream"
    /\ IF ~CanFlush(h[r].in)
       THEN /\ h' = [h EXCEPT ![r] = WriteErrorJSON(@, 500, "streaming_not_supported")]
            /\ UNCHANGED st
       ELSE IF Preflight(h[r].in.req) # ""
       THEN /\ h' = [h EXCEPT ![r] =
                   WriteErrorJSON([@ EXCEPT !.streamCalls = @ + 1,
                                            !.llmErr = Preflight(h[r].in.req)],
                                  502, "upstream_error")]
            /\ UNCHANGED st
       ELSE /\ h' = [h EXCEPT ![r].streamCalls = @ + 1, ![r].pc = "relay",
                              ![r].status = 200, ![r].contentType = "text/event-stream",
                              ![r].headerWrites = @ + 1]
            /\ st' = [st EXCEPT ![r].dpc = "connect", ![r].sink = <<Flushed>>]
    /\ UNCHANGED <<mc, fn, rt, now, cfg, items, hist>>

\* A faulty variant: the closed channel ends the relay with no [DONE] frame
RelayClosedSilent(sr, ok) == [sr EXCEPT !.relayExit = "completed"]

\* The channel is closed and drained: the [DONE] frame, flushed if written
RelayClosed(sr, ok) ==
    [sr EXCEPT !.relayExit = "completed",
               !.writeFailed = @ \/ ~ok,
               !.sink = IF ok THEN @ \o <<DoneFrame, Flushed>> ELSE @]

\* A faulty variant: the error frame is not followed by the [DONE] frame
RelayErrorNoDone(sr, ok1, ok2) ==
    [sr EXCEPT !.ch = Tail(@), !.relayExit = "error",
               !.writeFailed = @ \/ ~ok1 \/ ~ok2,
               !.sink = Append(Written(@, ok1, ErrorFrame), Flushed)]

\* An error result: the error frame, the [DONE] frame, one flush
RelayError(sr, ok1, ok2) ==
    [sr EXCEPT !.ch = Tail(@), !.relayExit = "error",
               !.writeFailed = @ \/ ~ok1 \/ ~ok2,
               !.sink = Append(Written(Written(@, ok1, ErrorFrame), ok2, DoneFrame),
                               Flushed)]

\* A faulty variant: a chunk frame is written and not flushed
RelayChunkUnflushed(sr, c, ok) ==
    IF ok
    THEN [sr EXCEPT !.ch = Tail(@),
                    !.sink = Append(@, Frame("chunk", StreamResponseJSON(c)))]
    ELSE [sr EXCEPT !.ch = Tail(@), !.writeFailed = TRUE, !.relayExit = "write_error"]

\* A chunk result: its frame and a flush, or the end of the relay when the
\* write fails
RelayChunk(sr, c, ok) ==
    IF ok
    THEN [sr EXCEPT !.ch = Tail(@),
                    !.sink = @ \o <<Frame("chunk", StreamResponseJSON(c)), Flushed>>]
    ELSE [sr EXCEPT !.ch = Tail(@), !.writeFailed = TRUE, !.relayExit = "write_error"]

\* One turn of the relay loop: the select, and what follows the receive
RelayStep(r) ==
    /\ h[r].pc = "relay"
    /\ \/ /\ h[r].cancelled
          /\ st' = [st EXCEPT ![r].relayExit = "cancelled"]
       \/ /\ st[r].ch = <<>> /\ st[r].closed
          /\ \E ok \in BOOLEAN : st' = [st EXCEPT ![r] = RelayClosed(@, ok)]
       \/ /\ st[r].ch # <<>> /\ Head(st[r].ch).Err # ""
          /\ \E ok1 \in BOOLEAN, ok2 \in BOOLEAN :
               st' = [st EXCEPT ![r] = RelayError(@, ok1, ok2)]
       \/ /\ st[r].ch # <<>> /\ Head(st[r].ch).Err = ""
          /\ IF Head(st[r].ch).Chunk = NilChunk
             THEN st' = [st EXCEPT ![r].ch = Tail(@)]
             ELSE \E ok \in BOOLEAN :
                    st' = [st EXCEPT ![r] = RelayChunk(@, Head(st[r].ch).Chunk[1], ok)]
    /\ h' = [h EXCEPT ![r].pc = IF st'[r].relayExit # "" THEN "done" ELSE @]
    /\ UNCHANGED <<mc, fn, rt, now, cfg, items, hist>>

----------------------------------------------------------------------------
(* Specifications *)

\* A call of a function: its arguments, and its result once it has returned
Call(op, args) == [op |-> op, args |-> args, called |-> FALSE, out |-> <<>>]

TestVersion == <<"v", "t">>

Config(backend, ttl) == [Backend |-> backend, CacheTTL |-> ttl, VersionID |-> TestVersion]

\* An external store may hold bytes the gateway did not write
Preloaded ==
    LET k == KeyString(BuildExactCacheKeyFromChatRequest(GoodRequest, <<"u">>,
                                                         TestVersion).key)
    IN (RedisKey(RedisPrefix, k) :> [value |-> GarbageBytes, expiresAt |-> MaxTime + 1])

NoHistory == [count |-> 0, stored |-> <<>>]

InitWith(configs) ==
    /\ now = 0
    /\ cfg \in configs
    /\ items \in IF cfg.Backend = "redis" THEN {<<>>, Preloaded} ELSE {<<>>}
    /\ h = [r \in Reqs |-> IdleHandler]
    /\ st = [r \in Reqs |-> NoStream]
    /\ hist = NoHistory
    /\ rt = StartRetry("off", DefaultMaxRetries, DefaultBaseBackoff, FALSE)
    /\ fn = Call("none", <<>>)
    /\ mc = StartCache

\* Non-streaming requests, served one after the other by one worker, against
\* either backend
SpecBodies ==
    {GoodRequest,
     [GoodRequest EXCEPT !.Model = <<>>],
     [GoodRequest EXCEPT !.Temperature = 21],
     [GoodRequest EXCEPT !.Messages = <<Msg(RoleUser, Huge)>>]}

SpecInputs ==
    {Input(FALSE, ZeroRequest, <<>>, TRUE)}
    \cup {Input(TRUE, b, u, TRUE) : b \in SpecBodies, u \in UserHeaders}

SpecScripts ==
    Scripts({HTTPResp(200, TRUE, ProviderFull), HTTPResp(200, TRUE, ProviderSparse),
             HTTPResp(200, TRUE, ProviderNoChoices),
             HTTPResp(503, TRUE, ProviderNoChoices), NetErr(FALSE)},
            DefaultMaxRetries + 1)

Init == InitWith({Config(b, t) : b \in {"memory", "redis"}, t \in {0, TTLTicks}})

Next ==
    \/ \E in \in SpecInputs : hist.count < MaxRequests /\ HandleParse("w1", in)
    \/ HandleCacheLookup("w1")
    \/ HandleUpstream("w1", SpecScripts)
    \/ HandleStore("w1")
    \/ Cancel("w1")
    \/ Tick
    \/ Sweep

Spec == Init /\ [][Next]_vars

\* Streaming and non-streaming requests against a cache that an earlier
\* request may have filled
RouteInputs ==
    {Input(TRUE, GoodRequest, <<"u">>, TRUE)} \cup StreamInputs

RouteScripts ==
    Scripts({HTTPResp(200, TRUE, ProviderFull), NetErr(FALSE)}, DefaultMaxRetries + 1)

InitRoute == InitWith({Config(b, TTLTicks) : b \in {"memory", "redis"}})

NextRoute ==
    \/ \E in \in RouteInputs : hist.count < MaxRequests /\ HandleParse("w1", in)
    \/ HandleCacheLookup("w1")
    \/ HandleUpstream("w1", RouteScripts)
    \/ HandleStore("w1")
    \/ StreamBegin("w1")
    \/ DecoderConnect("w1", ShortBodies, RouteScripts)
    \/ DecoderSendErr("w1")
    \/ DecoderCheck("w1")
    \/ DecoderRead("w1")
    \/ DecoderEmit("w1")
    \/ RelayStep("w1")
    \/ Cancel("w1")

SpecRoute == InitRoute /\ [][NextRoute]_vars

\* The writes the handler goroutine has made to the response writer
HandlerWrites(r) == h[r].headerWrites + Len(st[r].sink)

\* The select of the Timeout middleware around the handler goroutine: done
\* is closed when the handler has returned, ctx.Done() when the deadline has
\* passed or the client is gone; with both ready either case is taken.  The
\* timeout case writes 504 to the writer the handler goroutine may be using,
\* with no synchronisation: mwSaw is what the handler had written by then,
\* and whose status and body reach the client is open once it had written
TimeoutSelect(r) ==
    /\ h[r].pc # "idle" /\ h[r].mw = ""
    /\ \/ /\ h[r].pc = "done"
          /\ h' = [h EXCEPT ![r].mw = "done"]
       \/ /\ h[r].cancelled
          /\ \E won \in BOOLEAN :
               /\ HandlerWrites(r) = 0 => won
               /\ h' = [h EXCEPT ![r].mw = "timeout", ![r].mwSaw = HandlerWrites(r),
                                  ![r].status = IF won THEN 504 ELSE @,
                                  ![r].contentType = IF won THEN "application/json" ELSE @,
                                  ![r].body = IF won THEN ErrorBody("gateway_timeout") ELSE @]
    /\ UNCHANGED <<mc, fn, rt, now, cfg, items, st, hist>>

\* One request, streaming or not, served by the chat handler under the
\* Timeout middleware as the router installs it
NextTimeout ==
    \/ \E in \in RouteInputs : hist.count = 0 /\ HandleParse("w1", in)
    \/ HandleCacheLookup("w1")
    \/ HandleUpstream("w1", RouteScripts)
    \/ HandleStore("w1")
    \/ StreamBegin("w1")
    \/ DecoderConnect("w1", ShortBodies, RouteScripts)
    \/ DecoderSendErr("w1")
    \/ DecoderCheck("w1")
    \/ DecoderRead("w1")
    \/ DecoderEmit("w1")
    \/ RelayStep("w1")
    \/ Cancel("w1")
    \/ TimeoutSelect("w1")

SpecTimeout == InitRoute /\ [][NextTimeout]_vars

\* One streaming request, every upstream body of up to MaxLines lines
InitStream == InitWith({Config("memory", TTLTicks)})

NextStream ==
    \/ \E in \in StreamInputs : hist.count = 0 /\ HandleParse("w1", in)
    \/ StreamBegin("w1")
    \/ DecoderConnect("w1", SSEBodies(MaxLines), ConnectScripts)
    \/ DecoderSendErr("w1")
    \/ DecoderCheck("w1")
    \/ DecoderRead("w1")
    \/ DecoderEmit("w1")
    \/ UpstreamDeadline("w1")
    \/ RelayStep("w1")
    \/ Cancel("w1")

SpecStream == InitStream /\ [][NextStream]_vars

\* One streaming request whose upstream sends as many chunks as the channel
\* holds, so that a relay that lags lets the channel fill up.  The decoder
\* goroutine and the handler are scheduled for as long as they can run; the
\* client is free to disconnect or not.
RECURSIVE ChunkLines(_)
ChunkLines(n) ==
    IF n = 0 THEN <<>> ELSE Append(ChunkLines(n - 1), Line("data", <<Delta(0, "hel", "")>>))

LongBodies == {SSEBody(ChunkLines(StreamBuffer), e) : e \in {"eof", "error"}}

NextBackpressure ==
    \/ /\ hist.count = 0
       /\ HandleParse("w1", Input(TRUE, [GoodRequest EXCEPT !.Stream = TRUE], <<"u">>, TRUE))
    \/ StreamBegin("w1")
    \/ DecoderConnect("w1", LongBodies, {<<HTTPResp(200, TRUE, ProviderFull)>>})
    \/ DecoderSendErr("w1")
    \/ DecoderCheck("w1")
    \/ DecoderRead("w1")
    \/ DecoderEmit("w1")
    \/ RelayStep("w1")
    \/ Cancel("w1")

SpecBackpressure ==
    /\ InitStream
    /\ [][NextBackpressure]_vars
    /\ WF_vars(StreamBegin("w1"))
    /\ WF_vars(DecoderConnect("w1", LongBodies, {<<HTTPResp(200, TRUE, ProviderFull)>>}))
    /\ WF_vars(DecoderSendErr("w1"))
    /\ WF_vars(DecoderCheck("w1"))
    /\ WF_vars(DecoderRead("w1"))
    /\ WF_vars(DecoderEmit("w1"))
    /\ WF_vars(RelayStep("w1"))

\* One call of the retry engine by a client built by NewClient, against an
\* upstream that answers each attempt as it likes; every attempt returns and
\* every timer fires
RetryOutcomes ==
    {Answer(res, Header("absent", 0)) :
        res \in {HTTPResp(200, TRUE, ProviderFull), HTTPResp(400, TRUE, ProviderNoChoices),
                 HTTPResp(503, TRUE, ProviderNoChoices), HTTPResp(408, TRUE, ProviderNoChoices),
                 NetErr(TRUE), NetErr(FALSE), CtxErr}}
    \cup {Answer(HTTPResp(429, TRUE, ProviderNoChoices), hd) :
            hd \in {Header("int", 7), Header("int", MaxRetryAfter + 1), Header("int", 0),
                    Header("int", -5), Header("bigint", 0), Header("text", 0),
                    Header("date", MaxRetryAfter + 100)}}

\* No request is being served
InitIdle ==
    /\ now = 0
    /\ cfg = Config("memory", TTLTicks)
    /\ items = <<>>
    /\ h = [r \in Reqs |-> IdleHandler]
    /\ st = [r \in Reqs |-> NoStream]
    /\ hist = NoHistory
    /\ mc = StartCache

InitRetry ==
    /\ InitIdle
    /\ fn = Call("none", <<>>)
    /\ rt \in {StartRetry("top", WithDefaultMaxRetries(n), DefaultBaseBackoff, c) :
                 n \in 0..MaxConfiguredRetries, c \in BOOLEAN}

NextRetry ==
    \/ RetryTop
    \/ RetryDo(RetryOutcomes)
    \/ RetryTimer
    \/ RetryWake
    \/ RetryCancel

SpecRetry ==
    /\ InitRetry
    /\ [][NextRetry]_vars
    /\ WF_vars(RetryTop)
    /\ WF_vars(RetryDo(RetryOutcomes))
    /\ WF_vars(RetryTimer)
    /\ WF_vars(RetryWake)

\* Single calls of the client's and the cache's functions.  computeBackoff:
\* bases from below zero to months, attempt numbers on both sides of the
\* exponent cap
CallComputeBackoff ==
    /\ fn.op = "computeBackoff" /\ ~fn.called
    /\ \E w \in ComputeBackoff(fn.args[1], fn.args[2]) :
         fn' = [fn EXCEPT !.called = TRUE, !.out = w]
    /\ UNCHANGED <<now, cfg, items, h, st, hist, rt, mc>>

\* ExactCache.Get of either backend.  Stores: empty, or holding under the
\* key, plain and prefixed, an empty or a non-empty value that runs out at 1
CallGet ==
    /\ fn.op = "Get" /\ ~fn.called
    /\ fn' = [fn EXCEPT !.called = TRUE,
                        !.out = CacheGet(fn.args[1], fn.args[2], fn.args[3], fn.args[4],
                                         fn.args[5], fn.args[6])]
    /\ UNCHANGED <<now, cfg, items, h, st, hist, rt, mc>>

\* The key the handler builds for each of two requests under one version id,
\* and what the logging decorator reads back from it.  User ids: none, plain,
\* padded, with a colon, the fallback's own name; models: none, plain, with
\* a colon
CallKeys ==
    /\ fn.op = "Keys" /\ ~fn.called
    /\ LET Built(user, r, version) ==
             LET userID == IF user = <<>> THEN Anon ELSE user
                 kb == BuildExactCacheKeyFromChatRequest(
                           r, userID, IF version = <<>> THEN V1 ELSE version)
             IN [userID |-> userID, key |-> kb.key, str |-> KeyString(kb.key),
                 parts |-> ParseExactKey(KeyString(kb.key))]
       IN fn' = [fn EXCEPT !.called = TRUE,
                           !.out = <<Built(fn.args[1], fn.args[2], fn.args[5]),
                                     Built(fn.args[3], fn.args[4], fn.args[5])>>]
    /\ UNCHANGED <<now, cfg, items, h, st, hist, rt, mc>>

\* Both operations of a client that NewClient built from a Config with
\* MaxRetries = fn.args[4], on a nil or a given request, against an upstream
\* that answers every attempt alike, the context never cancelled.  Requests: invalid, small, one message of the
\* limit and of one byte more, and four messages that bring each operation's
\* marshaled body to the limit and to one byte more
CallChat ==
    /\ fn.op \in {"ChatCompletion", "ChatCompletionStream"} /\ ~fn.called
    /\ LET u == ClientChatCompletion(fn.args[2], fn.args[3],
                                     WithDefaultMaxRetries(fn.args[4]), Len(fn.args[3]) + 1)
           s == ClientChatCompletionStream(fn.args[2], fn.args[3],
                                           WithDefaultMaxRetries(fn.args[4]),
                                           Len(fn.args[3]) + 1)
       IN fn' = [fn EXCEPT
                   !.called = TRUE,
                   !.out = IF fn.args[1] THEN [err |-> "request is nil", attempts |-> 0]
                           ELSE IF fn.op = "ChatCompletion"
                           THEN [err |-> u.err, attempts |-> u.attempts]
                           ELSE [err |-> IF s.err # "" THEN s.err ELSE s.sent,
                                 attempts |-> s.attempts]]
    /\ UNCHANGED <<now, cfg, items, h, st, hist, rt, mc>>

\* ChatRequest.Validate.  Models: empty, blank, plain; messages: none, good,
\* empty content for a user and for the system, an unknown role, a bad
\* message after a good one; temperature, top_p and max_tokens on both sides
\* of their limits
CallValidate ==
    /\ fn.op = "Validate" /\ ~fn.called
    /\ fn' = [fn EXCEPT !.called = TRUE, !.out = Validate(fn.args[1])]
    /\ UNCHANGED <<now, cfg, items, h, st, hist, rt, mc>>

Calls ==
    {Call("Validate", <<[ZeroRequest EXCEPT !.Model = m, !.Messages = ms, !.Temperature = t,
                                            !.TopP = p, !.MaxTokens = k]>>) :
        m \in {<<>>, <<" ">>, <<"g">>},
        ms \in {<<>>,
                <<Msg(RoleUser, Content("x", 1))>>,
                <<Msg(RoleUser, Content("", 0))>>,
                <<Msg(RoleSystem, Content("", 0))>>,
                <<Msg("tool", Content("x", 1))>>,
                <<Msg(RoleAssistant, Content("x", 1)), Msg(RoleAssistant, Content("", 0))>>},
        t \in {-1, 0, 20, 21}, p \in {-1, 0, 10, 11}, k \in {-1, 0, 5}}
    \cup
    {Call(op, <<isNil, r, script, n>>) :
        op \in {"ChatCompletion", "ChatCompletionStream"},
        isNil \in BOOLEAN,
        r \in {ZeroRequest}
              \cup {[GoodRequest EXCEPT !.Messages = <<Msg(RoleUser, Content("x", n))>>] :
                      n \in {2, MaxMessageSize, MaxMessageSize + 1}}
              \cup {[GoodRequest EXCEPT !.Messages =
                        <<Msg(RoleUser, Content("x", MaxMessageSize)),
                          Msg(RoleUser, Content("x", MaxMessageSize)),
                          Msg(RoleUser, Content("x", MaxMessageSize)),
                          Msg(RoleUser, Content("y", n))>>] :
                      n \in {MaxMessageSize - 158, MaxMessageSize - 157,
                              MaxMessageSize - 144, MaxMessageSize - 143}},
        script \in UNION {SeqsOfLen({o}, DefaultMaxRetries + MaxConfiguredRetries + 1) :
                             o \in {HTTPResp(200, TRUE, ProviderFull),
                                    HTTPResp(503, TRUE, ProviderNoChoices)}},
        n \in 0..MaxConfiguredRetries}
    \cup
    {Call("Keys", <<u1, r1, u2, r2, v>>) :
        u1 \in {<<>>, <<"a">>, <<"a", " ">>, <<"a", ":", "b">>, Anon},
        u2 \in {<<>>, <<"a">>, <<"a", " ">>, <<"a", ":", "b">>, Anon},
        r1 \in {[ZeroRequest EXCEPT !.Model = m] : m \in {<<>>, <<"c">>, <<"b", ":", "c">>}},
        r2 \in {[ZeroRequest EXCEPT !.Model = m, !.Messages = ms] :
                  m \in {<<>>, <<"c">>, <<"b", ":", "c">>},
                  ms \in {<<>>, <<Msg(RoleUser, Content("x:y", 3))>>}},
        v \in {<<>>, TestVersion}}
    \cup
    {Call("computeBackoff", <<base, attempt>>) :
        base \in {-1, 0, 1, DefaultBaseBackoff, 25, MaxAllowedBackoff, MaxAllowedBackoff + 1,
                  MaxShiftedDuration, MaxShiftedDuration + 1, 2 * MaxShiftedDuration + 2},
        attempt \in 0..MaxAttemptNumber}
    \cup
    {Call("Get", <<backend, its, <<"k">>, t, ctxErr, fault>>) :
        backend \in {"memory", "redis"},
        its \in {<<>>} \cup
                {Put(Put(<<>>, <<"k">>, e), RedisKey(RedisPrefix, <<"k">>), e) :
                    e \in {[value |-> v, expiresAt |-> 1] : v \in {<<>>, <<"v">>}}},
        t \in 0..MaxTime, ctxErr \in BOOLEAN, fault \in BOOLEAN}

InitCalls ==
    /\ InitIdle
    /\ rt = StartRetry("off", DefaultMaxRetries, DefaultBaseBackoff, FALSE)
    /\ fn \in Calls

NextCalls ==
    \/ CallComputeBackoff
    \/ CallGet
    \/ CallKeys
    \/ CallChat
    \/ CallValidate

SpecCalls == InitCalls /\ [][NextCalls]_vars

\* Two workers serve one non-streaming request each, the same body from the
\* same or from different users, against the in-process cache
InitPair == InitWith({Config("memory", TTLTicks)})

NextPair ==
    \/ \E r \in Reqs, u \in {<<"u">>, <<"w">>} :
          h[r].pc = "idle" /\ HandleParse(r, Input(TRUE, GoodRequest, u, TRUE))
    \/ \E r \in Reqs : HandleCacheLookup(r)
    \/ \E r \in Reqs : HandleUpstream(r, RouteScripts)
    \/ \E r \in Reqs : HandleStore(r)
    \/ Tick
    \/ Sweep

SpecPair == InitPair /\ [][NextPair]_vars

\* The in-process cache alone: one goroutine calling Get of one key, others
\* calling Set of that key and of another, with an empty and a non-empty
\* value, the sweeper, Close.  Go's select
\* picks among its ready cases at random, so the stop case, once ready, is
\* taken in the end
InitCache ==
    /\ InitIdle
    /\ rt = StartRetry("off", DefaultMaxRetries, DefaultBaseBackoff, FALSE)
    /\ fn = Call("none", <<>>)

NextCache ==
    \/ GetBegin({<<"k1">>})
    \/ GetCheck
    \/ GetDelete
    \/ SetCall({<<"k1">>, <<"k2">>}, {<<>>, <<"v">>}, {0, TTLTicks})
    \/ TickerFire
    \/ SweeperSweep
    \/ SweeperStop
    \/ Close
    \/ Tick

SpecCache ==
    /\ InitCache
    /\ [][NextCache]_vars
    /\ WF_vars(SweeperStop)

\* Callers of the in-process cache that keep and overwrite the slices they
\* passed to Set and got from Get
NextOwned ==
    \/ CallerSet({<<"k1">>, <<"k2">>}, {<<"v">>, <<"w">>})
    \/ CallerGet({<<"k1">>, <<"k2">>})
    \/ CallerWrite({<<"v">>, <<"w">>, <<"z">>})
    \/ Tick

SpecOwned == InitCache /\ [][NextOwned]_vars

----------------------------------------------------------------------------
(* Properties of the non-streaming path *)

\* The handler has answered a decoded non-streaming request
AnsweredUnary(r) ==
    h[r].pc = "done" /\ h[r].in.json_ok /\ ~h[r].in.req.Stream

\* The last HTTP attempt of the unary upstream call returned a 2xx response
\* that decodes and has at least one choice
UpstreamSucceeded(r) ==
    /\ h[r].unaryCalls = 1
    /\ h[r].last.kind = "resp"
    /\ h[r].last.status >= 200 /\ h[r].last.status < 300
    /\ h[r].last.decodes
    /\ Len(h[r].last.body.Choices) > 0

\* The unary upstream call ended in a transport failure, a non-2xx response
\* after the retries, or a 2xx response with no choices
UpstreamFailed(r) ==
    /\ h[r].unaryCalls = 1
    /\ \/ h[r].last.kind = "neterr"
       \/ h[r].last.kind = "resp" /\ (h[r].last.status < 200 \/ h[r].last.status >= 300)
       \/ /\ h[r].last.kind = "resp"
          /\ h[r].last.status >= 200 /\ h[r].last.status < 300
          /\ h[r].last.decodes
          /\ Len(h[r].last.body.Choices) = 0

\* An earlier request with the same key got its response from upstream, and
\* this request's lookup came no later than the TTL after that write-back
WithinTTLOfStored(r) ==
    /\ cfg.Backend = "memory"
    /\ cfg.CacheTTL > 0
    /\ h[r].prior # <<>>
    /\ h[r].getAt <= h[r].prior[1].at + cfg.CacheTTL

\* C1: with the in-process cache and a positive TTL, a non-streaming request
\* that repeats (same body, X-User-ID and version) one whose upstream call
\* succeeded, within the TTL of its completion, is answered 200 with the
\* same response and without another upstream call.
C1_RepeatServedFromCache ==
    \A r \in Reqs :
        AnsweredUnary(r) /\ WithinTTLOfStored(r)
            => /\ h[r].status = 200
               /\ h[r].body = h[r].prior[1].body
               /\ h[r].unaryCalls = 0

\* A repeat arriving exactly one TTL after the first response was a hit
C1_Witness ==
    /\ AnsweredUnary("w1") /\ WithinTTLOfStored("w1")
    /\ h["w1"].getAt = h["w1"].prior[1].at + cfg.CacheTTL
    /\ h["w1"].cacheHit
    /\ h["w1"].body = MarshalResponse(MapProviderResponse(ProviderSparse))

\* C2: whatever Cache.Get and Cache.Set return, errors included, a
\* non-streaming request whose upstream call succeeds is answered 200 with
\* the upstream response.
C2_CacheFaultsDoNotFailRequest ==
    \A r \in Reqs :
        AnsweredUnary(r) /\ UpstreamSucceeded(r)
            => /\ h[r].status = 200
               /\ h[r].body = MarshalResponse(MapProviderResponse(h[r].last.body))

\* Both cache calls failed and the client still got the upstream response
C2_Witness ==
    /\ AnsweredUnary("w1") /\ UpstreamSucceeded("w1")
    /\ h["w1"].getErr /\ h["w1"].setErr
    /\ h["w1"].getCalls = 1 /\ h["w1"].setCalls = 1
    /\ h["w1"].status = 200

\* C3: a decoded non-streaming request that fails validation is rejected
\* before the cache lookup: Cache.Get is never called for it.
C3_InvalidRejectedBeforeLookup ==
    \A r \in Reqs :
        (h[r].in.json_ok /\ ~h[r].in.req.Stream /\ Validate(h[r].in.req) # "")
            => h[r].getCalls = 0

\* C4: a decoded request that fails validation is answered 400, and no HTTP
\* attempt is made upstream for it.
C4_InvalidAnswered400 ==
    \A r \in Reqs :
        (AnsweredUnary(r) /\ Validate(h[r].in.req) # "")
            => h[r].status = 400 /\ h[r].attempts = 0

\* C5: when the unary upstream call fails (transport failure, non-2xx after
\* the retries, 2xx with no choices) the client gets 502 with the body
\* {"error":"upstream_error"} and Cache.Set is not called.
C5_UpstreamFailureIs502 ==
    \A r \in Reqs :
        AnsweredUnary(r) /\ UpstreamFailed(r)
            => /\ h[r].status = 502
               /\ h[r].body = ErrorBody("upstream_error")
               /\ h[r].setCalls = 0

\* A 2xx response with no choices, after retries, was answered 502
C5_Witness ==
    /\ AnsweredUnary("w1") /\ UpstreamFailed("w1")
    /\ h["w1"].last = HTTPResp(200, TRUE, ProviderNoChoices)
    /\ h["w1"].attempts = DefaultMaxRetries + 1
    /\ h["w1"].status = 502
    /\ h["w1"].cacheKey # <<>>

----------------------------------------------------------------------------
(* Properties of the streaming path *)

\* A decoded streaming request
IsStreaming(r) == h[r].in.json_ok /\ h[r].in.req.Stream

\* C6: a streaming request never reaches the cache, whatever its outcome:
\* neither Cache.Get nor Cache.Set is called for it, and no step of its
\* handler or decoder changes the cache.
C6_StreamBypassesCache ==
    /\ [](\A r \in Reqs : IsStreaming(r) => h[r].getCalls = 0 /\ h[r].setCalls = 0)
    /\ [][(\E r \in Reqs :
              /\ h'[r] # h[r] \/ st'[r] # st[r]
              /\ h'[r].in.json_ok /\ h'[r].in.req.Stream)
            => items' = items]_vars

\* A stream ran to its [DONE] frame over an in-process cache that an earlier
\* request had filled
C6_Witness ==
    /\ IsStreaming("w1")
    /\ h["w1"].pc = "done"
    /\ st["w1"].relayExit = "completed"
    /\ cfg.Backend = "memory"
    /\ items # <<>>
    /\ h["w1"].getCalls = 0 /\ h["w1"].setCalls = 0

\* What the client has received: frames and flushes, in order
Frames(sink) == SelectSeq(sink, LAMBDA e : e.ev = "frame")
ChunkFrames(sink) == SelectSeq(sink, LAMBDA e : e.ev = "frame" /\ e.kind = "chunk")
DoneFrames(sink) == SelectSeq(sink, LAMBDA e : e.ev = "frame" /\ e.kind = "done")

\* The connect step failed in the HTTP exchange itself
ConnectFailed(r) ==
    st[r].connectErr \in {"network", "max retries exceeded", "upstream status"}

\* C7: when the initial HTTP exchange of a streaming request fails, the
\* client gets 502 upstream_error, and neither text/event-stream headers nor
\* SSE frames.
C7_ConnectFailureIs502 ==
    \A r \in Reqs :
        ConnectFailed(r)
            => /\ h[r].contentType # "text/event-stream"
               /\ Frames(st[r].sink) = <<>>
               /\ h[r].pc = "done"
                    => h[r].status = 502 /\ h[r].body = ErrorBody("upstream_error")

\* The choices the upstream sends before [DONE] that have content or a
\* finish_reason, in order
RECURSIVE UpstreamChoices(_, _)
UpstreamChoices(lines, i) ==
    IF i > Len(lines) \/ lines[i].kind = "done" THEN <<>>
    ELSE (IF lines[i].kind = "data"
          THEN SelectSeq(lines[i].choices, LAMBDA c : c.Content # "" \/ c.Finish # "")
          ELSE <<>>)
         \o UpstreamChoices(lines, i + 1)

\* Reading a frame's JSON back: one choice, absent fields are empty
SameChoice(f, c) ==
    /\ Len(f.json.choices) = 1
    /\ f.json.choices[1].index = c.Index
    /\ (IF "content" \in DOMAIN f.json.choices[1].delta
        THEN f.json.choices[1].delta.content ELSE "") = c.Content
    /\ (IF "finish_reason" \in DOMAIN f.json.choices[1]
        THEN f.json.choices[1].finish_reason ELSE "") = c.Finish

\* The decoder read the body to [DONE] or EOF and the relay drained the
\* channel
RanToEnd(r) ==
    st[r].exitWhy \in {"done", "eof"} /\ st[r].relayExit = "completed"

\* C8: the chunk frames written are, in order, one for one, the upstream
\* choices that have content or a finish_reason, each with the index,
\* content and finish_reason of its choice: a prefix of them at any time,
\* all of them when the stream ran to its end.
C8_ChunkFramesAreUpstreamChoices ==
    \A r \in Reqs :
        LET fs == ChunkFrames(st[r].sink)
            up == UpstreamChoices(st[r].body.lines, 1)
        IN /\ Len(fs) <= Len(up)
           /\ \A i \in 1..Len(fs) : SameChoice(fs[i], up[i])
           /\ RanToEnd(r) => Len(fs) = Len(up)

\* A chunk with an empty choice and a finish-only choice, then a content
\* chunk, relayed to the end as two frames
C8_Witness ==
    /\ RanToEnd("w1")
    /\ st["w1"].body.lines =
          <<Line("data", <<Delta(0, "", ""), Delta(1, "", "stop")>>),
            Line("data", <<Delta(0, "hel", "")>>)>>
    /\ Len(ChunkFrames(st["w1"].sink)) = 2

\* The handler has left the relay loop, the upstream sequence had closed
\* normally and the request context is not cancelled
ClosedNormally(r) ==
    /\ st[r].relayExit # ""
    /\ st[r].exitWhy \in {"done", "eof"}
    /\ ~h[r].cancelled

ExactlyOneDoneLast(r) ==
    /\ st[r].relayExit = "completed"
    /\ h[r].pc = "done"
    /\ Len(DoneFrames(st[r].sink)) = 1
    /\ Frames(st[r].sink)[Len(Frames(st[r].sink))].kind = "done"

----------------------------------------------------------------------------
(* Properties of cancellation and of the decoder's resources *)

\* C11: once the request context is cancelled during a stream relay, the
\* handler writes no further frame (chunk, error or [DONE]) to the client,
\* even when results are waiting on the channel.
C11_NoFrameAfterCancel ==
    [][\A r \in Reqs : h[r].cancelled => Frames(st'[r].sink) = Frames(st[r].sink)]_vars

\* C12: after the parent context of a running stream is cancelled, the
\* decoder eventually terminates: it closes its channel and the response
\* body and cancels its derived context, whatever the relay does and however
\* full the channel is.
C12_DecoderTerminatesAfterCancel ==
    \A r \in Reqs :
        (h[r].cancelled /\ st[r].dpc # "none")
            ~> (/\ st[r].dpc = "exited"
                /\ st[r].closed
                /\ st[r].bodyState # "open"
                /\ st[r].cancelCalls > 0)

\* C13: in every run of the decoder the channel is closed at most once and
\* nothing is sent on it after the close; the response body, once obtained,
\* is closed at most once; when the decoder has exited, the channel has been
\* closed exactly once and so has the body if there was one.
C13_ChannelAndBodyClosedOnce ==
    /\ [](\A r \in Reqs :
            /\ st[r].chanCloses <= 1
            /\ st[r].bodyCloses <= 1
            /\ st[r].bodyState = "none" => st[r].bodyCloses = 0
            /\ st[r].closed <=> st[r].chanCloses = 1
            /\ st[r].dpc = "exited"
                 => /\ st[r].chanCloses = 1
                    /\ st[r].bodyState # "none"
                         => st[r].bodyState = "closed" /\ st[r].bodyCloses = 1)
    /\ [][\A r \in Reqs : st[r].closed => Len(st'[r].ch) <= Len(st[r].ch)]_vars

\* The decoder has read a body, sent a chunk and exited
C13_Witness ==
    /\ st["w1"].dpc = "exited"
    /\ st["w1"].pos > 0
    /\ st["w1"].chanCloses = 1
    /\ st["w1"].bodyState = "closed" /\ st["w1"].bodyCloses = 1
    /\ st["w1"].ch # <<>>

\* C14: once the decoder's derived context is done (caller cancellation or
\* upstream timeout), the decoder places no further result, chunk or error,
\* on the channel.
C14_NoResultAfterCtxDone ==
    [][\A r \in Reqs : CtxDone(r) => Len(st'[r].ch) <= Len(st[r].ch)]_vars

----------------------------------------------------------------------------
(* Properties of the retry engine *)

Returned == rt.pc = "returned"

\* The statuses the engine is to retry: 429, 408 and 5xx
RetryableStatus(o) ==
    /\ o.res.kind = "resp"
    /\ o.res.status \in {429, 408} \/ (o.res.status >= 500 /\ o.res.status <= 599)

FinalStatus(o) == o.res.kind = "resp" /\ ~RetryableStatus(o)

\* C15: one call of the engine makes at most max_retries + 1 attempts, and
\* at least one unless its context is found cancelled before the first.
C15_AttemptsBounded ==
    /\ Len(rt.trace) <= rt.maxRetries + 1
    /\ Returned /\ Len(rt.trace) = 0
         => /\ rt.err = "context"
            /\ rt.cancelledIn \in {"entry", "top"}

\* The engine held max_retries = 2 and used all three attempts
C15_Witness ==
    /\ Returned
    /\ rt.maxRetries = 2
    /\ Len(rt.trace) = rt.maxRetries + 1
    /\ rt.err = "max retries exceeded"

C17_CancelInterruptsSleep ==
    /\ rt.pc = "sleep" /\ rt.cancelled
         => ENABLED (RetryWake /\ rt'.pc = "returned" /\ rt'.err = "context")
    /\ rt.cancelledIn = "sleep"
         => /\ Len(rt.trace) = rt.attemptsAtCancel
            /\ Returned => rt.err = "context"

\* Cancelled in a five-minute Retry-After wait, returned before its timer
C17_Witness ==
    /\ Returned
    /\ rt.cancelledIn = "sleep"
    /\ rt.sleep.kind = "retry-after" /\ rt.sleep.d = MaxRetryAfter * 100
    /\ rt.sleep.woke = "ctx" /\ ~rt.sleep.fired
    /\ rt.err = "context"

\* C18: the engine never retries after a terminal outcome.  A context found
\* cancelled at the start of an iteration ends the call with that error and
\* no attempt; an attempt that fails with the context's error or with a
\* network error that is not transient ends the call at once, with no
\* further attempt and no sleep.
C18_NoRetryAfterTerminalOutcome ==
    /\ rt.cancelledIn \in {"entry", "top"}
         => /\ Len(rt.trace) = rt.attemptsAtCancel
            /\ Returned => rt.err = "context"
    /\ \A i \in 1..Len(rt.trace) :
         LET o == rt.trace[i] IN
         (o.res.kind = "ctxerr" \/ (o.res.kind = "neterr" /\ ~o.res.transient))
            => /\ i = Len(rt.trace)
               /\ Returned
               /\ rt.err = (IF o.res.kind = "ctxerr" THEN "context" ELSE "network")
               /\ rt.resp = 0
               /\ rt.sleeps = i - 1

\* A transient failure, a sleep, then a failure that is not transient
C18_Witness ==
    /\ Returned
    /\ Len(rt.trace) = 2
    /\ rt.trace[1].res.kind = "neterr" /\ rt.trace[1].res.transient
    /\ rt.trace[2].res.kind = "neterr" /\ ~rt.trace[2].res.transient
    /\ rt.err = "network" /\ rt.sleeps = 1

\* C19: the body of every response with a retryable status is drained and
\* closed before the next attempt starts and before the engine returns.
C19_RetryableBodiesDrainedAndClosed ==
    \A i \in 1..Len(rt.trace) :
        RetryableStatus(rt.trace[i]) => rt.trace[i].closed /\ rt.trace[i].drained

\* C20: after a retryable response whose Retry-After is an integer number of
\* seconds s > 0, with attempts remaining, the engine waits exactly
\* min(s, 300) seconds instead of the backoff; when s <= 0, or the header is
\* absent or invalid, it waits the computed backoff; a Retry-After wait is
\* never longer than five minutes.
C20_RetryAfterHonoured ==
    (rt.pc = "sleep" /\ RetryableStatus(rt.trace[Len(rt.trace)]))
        => LET hd == rt.trace[Len(rt.trace)].retryAfter
               secs == IF hd.form = "bigint" THEN MaxRetryAfter
                       ELSE IF hd.n > MaxRetryAfter THEN MaxRetryAfter ELSE hd.n
           IN /\ (hd.form = "bigint" \/ (hd.form = "int" /\ hd.n > 0))
                   => rt.sleep.kind = "retry-after" /\ rt.sleep.d = secs * 100
              /\ ((hd.form = "int" /\ hd.n <= 0) \/ hd.form \in {"absent", "text"})
                   => /\ rt.sleep.kind = "backoff"
                      /\ rt.sleep.d \in ComputeBackoff(rt.base, rt.attempt)
              /\ rt.sleep.kind = "retry-after" => rt.sleep.d <= MaxRetryAfter * 100

----------------------------------------------------------------------------
(* Properties of single functions *)

\* C21: for every base and every attempt number >= 0, the wait w that
\* computeBackoff returns satisfies 0 <= w <= min(base * 2^min(attempt, 10),
\* 60 s), with base taken as 100 ms when base <= 0.
C21_BackoffWithinCeiling ==
    (fn.op = "computeBackoff" /\ fn.called)
        => /\ 0 <= fn.out
           /\ fn.out <= MaxBackoff(fn.args[1], fn.args[2])

\* C23: a Get of either backend that reports a hit reports no error and a
\* value that is not nil; the external backend turns a missing key into a
\* miss without error and every other failure into a miss with an error
C23_GetResultShape ==
    (fn.op = "Get" /\ fn.called)
        => /\ fn.out.hit => (~fn.out.err /\ fn.out.value # NilBytes)
           /\ (fn.args[1] = "redis" /\ (fn.args[5] \/ fn.args[6]))
                => (~fn.out.hit /\ fn.out.err)
           /\ (fn.args[1] = "redis" /\ ~fn.args[5] /\ ~fn.args[6]
                 /\ ~StoreHas(fn.args[2], RedisKey(RedisPrefix, fn.args[3]), fn.args[4]))
                => (~fn.out.hit /\ ~fn.out.err)

\* The external store holds the key, and the read of it fails
C23_Witness ==
    /\ fn.op = "Get" /\ fn.called
    /\ fn.args[1] = "redis" /\ fn.args[6] /\ ~fn.args[5]
    /\ StoreHas(fn.args[2], RedisKey(RedisPrefix, fn.args[3]), fn.args[4])
    /\ ~fn.out.hit /\ fn.out.err

\* C26: under one version id, two requests whose user ids differ after
\* trimming never get the same key string, whatever their models and bodies
C26_UsersNeverShareKey ==
    (fn.op = "Keys" /\ fn.called)
        => (TrimSpace(fn.out[1].userID) # TrimSpace(fn.out[2].userID)
              => fn.out[1].str # fn.out[2].str)

\* User "a" with model "b:c" and user "a:b" with model "c": the text between
\* the first and the last field is the same, the keys are not
C26_Witness ==
    /\ fn.op = "Keys" /\ fn.called
    /\ fn.out[1].userID = <<"a">> /\ fn.out[1].key.ModelID = <<"b", ":", "c">>
    /\ fn.out[2].userID = <<"a", ":", "b">> /\ fn.out[2].key.ModelID = <<"c">>
    /\ fn.out[1].str # fn.out[2].str

\* C27: the key string has exactly five colon-separated fields, and the
\* logging decorator's split gives back the components the key was built from
C27_KeyHasFiveFields ==
    (fn.op = "Keys" /\ fn.called)
        => /\ Len(Split(fn.out[1].str)) = 5
           /\ fn.out[1].parts = [ok |-> TRUE, userID |-> fn.out[1].key.UserID,
                                 modelID |-> fn.out[1].key.ModelID,
                                 versionID |-> fn.out[1].key.VersionID,
                                 hash |-> <<fn.out[1].key.Hash>>]

\* C30: a request that is nil, fails Validate, has a message content above
\* 512 KiB or marshals to more than 2 MiB gets an error from ChatCompletion
\* and from ChatCompletionStream without any HTTP attempt; a request that
\* passes, a message of exactly 512 KiB and a body of exactly 2 MiB included,
\* reaches the upstream
C30_PreflightFailureMakesNoAttempt ==
    (fn.op \in {"ChatCompletion", "ChatCompletionStream"} /\ fn.called)
        => LET r == fn.args[2]
               fails == \/ fn.args[1]
                        \/ Validate(r) # ""
                        \/ \E i \in 1..Len(r.Messages) :
                              r.Messages[i].Content.Len > MaxMessageSize
                        \/ ProviderBodyLen(r, fn.op = "ChatCompletionStream") > MaxRequestSize
           IN IF fails THEN fn.out.attempts = 0 /\ fn.out.err # ""
              ELSE fn.out.attempts >= 1

\* A streaming request whose marshaled body is one byte over 2 MiB, every
\* message within 512 KiB, valid: refused with no HTTP attempt
C30_Witness ==
    /\ fn.op = "ChatCompletionStream" /\ fn.called /\ ~fn.args[1]
    /\ Preflight(fn.args[2]) = ""
    /\ ProviderBodyLen(fn.args[2], TRUE) = MaxRequestSize + 1
    /\ fn.out.attempts = 0 /\ fn.out.err = "request too large"

\* C31: Validate accepts a request exactly when the model is non-empty after
\* trimming, there is a message, every role is system, user or assistant,
\* every content is non-empty unless the role is system, temperature is in
\* [0, 2], top_p in [0, 1] and max_tokens is not negative
C31_ValidateIsTheDataModel ==
    (fn.op = "Validate" /\ fn.called)
        => LET r == fn.args[1]
           IN fn.out = ""
                <=> /\ TrimSpace(r.Model) # <<>>
                    /\ Len(r.Messages) >= 1
                    /\ \A i \in 1..Len(r.Messages) :
                          /\ r.Messages[i].Role \in {RoleSystem, RoleUser, RoleAssistant}
                          /\ r.Messages[i].Content.Len > 0 \/ r.Messages[i].Role = RoleSystem
                    /\ r.Temperature >= 0 /\ r.Temperature <= 20
                    /\ r.TopP >= 0 /\ r.TopP <= 10
                    /\ r.MaxTokens >= 0

\* C35: a call of ChatCompletion on a client built with MaxRetries = n >= 0
\* makes at most n + 1 upstream attempts, and exactly one when n = 0 and the
\* upstream always answers 503
C35_AttemptsWithinConfiguredRetries ==
    (fn.op = "ChatCompletion" /\ fn.called /\ ~fn.args[1])
        => /\ fn.out.attempts <= fn.args[4] + 1
           /\ (/\ fn.args[4] = 0 /\ Preflight(fn.args[2]) = ""
               /\ ProviderBodyLen(fn.args[2], FALSE) <= MaxRequestSize
               /\ fn.args[3][1].status = 503)
                 => fn.out.attempts = 1

\* C36: the retry engine never sleeps after its final attempt, whether or not
\* the response carries Retry-After: a sleep begins only while attempts
\* remain, and a call that ends after its last attempt has slept once per
\* earlier attempt and is in no sleep
C36_NoSleepAfterFinalAttempt ==
    /\ rt.pc = "sleep" => Len(rt.trace) < MaxAttempts(rt.maxRetries)
    /\ rt.sleeps <= MaxAttempts(rt.maxRetries) - 1
    /\ (rt.pc = "returned" /\ Len(rt.trace) = MaxAttempts(rt.maxRetries))
         => /\ rt.sleeps = Len(rt.trace) - 1
            /\ rt.sleep.woke = "timer"

\* The last attempt got a 429 with a Retry-After wait and the call returned
C36_Witness ==
    /\ rt.pc = "returned" /\ rt.err = "max retries exceeded"
    /\ Len(rt.trace) = MaxAttempts(rt.maxRetries)
    /\ rt.trace[Len(rt.trace)].res.status = 429
    /\ ParseRetryAfter(rt.trace[Len(rt.trace)].retryAfter) > 0
    /\ rt.sleeps = Len(rt.trace) - 1

\* The number of results the first n lines of a body call for
Emitted(lines, n) ==
    Cardinality(UNION {{<<i, j>> : j \in {j \in 1..Len(lines[i].choices) :
                                             ~Skipped(lines[i].choices[j])}} :
                       i \in {i \in 1..n : lines[i].kind = "data"}})

\* The places of the error results in a sequence of results
ErrorsIn(q) == {i \in 1..Len(q) : q[i].Err # ""}

\* C37: a result sequence of ChatCompletionStream holds at most one error
\* result, and that one is its last element, sent as the channel closes;
\* after [DONE] or EOF the sequence has no error result, and nothing is read
\* or emitted past [DONE]; a read error, a malformed payload or a failed
\* connection gives exactly one error result
C37_OneErrorResultAtTheEnd ==
    \A r \in Reqs :
        LET sr == st[r] IN
        /\ Cardinality(ErrorsIn(sr.sent)) <= 1
        /\ ErrorsIn(sr.sent) # {} => (ErrorsIn(sr.sent) = {Len(sr.sent)} /\ sr.closed)
        /\ \A i \in 1..(sr.pos - 1) : sr.body.lines[i].kind \notin {"done", "badjson"}
        /\ Len(sr.sent) <= Emitted(sr.body.lines, sr.pos) + 1
        /\ sr.exitWhy \in {"done", "eof"}
             => /\ ErrorsIn(sr.sent) = {}
                /\ Len(sr.sent) = Emitted(sr.body.lines, sr.pos)
        /\ sr.exitWhy = "done" => sr.body.lines[sr.pos].kind = "done"
        /\ sr.exitWhy = "eof" => sr.pos = Len(sr.body.lines)
        /\ (sr.dpc = "exited" /\ sr.pendingErr # "")
             => (Cardinality(ErrorsIn(sr.sent)) = 1 /\ sr.exitWhy = "error")

\* A chunk, then the one error result of a read error, and the channel closed
C37_Witness ==
    /\ st["w1"].exitWhy = "error" /\ st["w1"].pendingErr = "read stream line"
    /\ Len(st["w1"].sent) = 2 /\ ErrorsIn(st["w1"].sent) = {2}
    /\ st["w1"].closed

ErrorFrames(sink) == SelectSeq(sink, LAMBDA e : e.ev = "frame" /\ e.kind = "error")

\* The sink ends with the frames q
EndsWith(sink, q) ==
    /\ Len(sink) >= Len(q)
    /\ SubSeq(sink, Len(sink) - Len(q) + 1, Len(sink)) = q

\* C38, as stated: a relay that received an error result has written exactly
\* one error frame and then exactly one [DONE] frame, flushed and terminated,
\* with no frame after them and the status still 200
C38_ErrorFrameThenDone ==
    \A r \in Reqs :
        st[r].relayExit = "error"
            => /\ h[r].pc = "done" /\ h[r].status = 200 /\ h[r].headerWrites = 1
               /\ Len(ErrorFrames(st[r].sink)) = 1
               /\ Len(DoneFrames(st[r].sink)) = 1
               /\ EndsWith(st[r].sink, <<ErrorFrame, DoneFrame, Flushed>>)

\* C38, amended: a relay that received an error result has attempted one
\* error frame and then one [DONE] frame, flushed and terminated with the
\* status still 200; each of the two frames is there unless its write
\* failed, and nothing follows them but the flush
C38_ErrorFrameThenDoneIfWritten ==
    \A r \in Reqs :
        st[r].relayExit = "error"
            => /\ h[r].pc = "done" /\ h[r].status = 200 /\ h[r].headerWrites = 1
               /\ Len(ErrorFrames(st[r].sink)) <= 1
               /\ Len(DoneFrames(st[r].sink)) <= 1
               /\ \/ EndsWith(st[r].sink, <<ErrorFrame, DoneFrame, Flushed>>)
                  \/ /\ st[r].writeFailed
                     /\ \/ /\ EndsWith(st[r].sink, <<ErrorFrame, Flushed>>)
                           /\ DoneFrames(st[r].sink) = <<>>
                        \/ /\ EndsWith(st[r].sink, <<Flushed, DoneFrame, Flushed>>)
                           /\ ErrorFrames(st[r].sink) = <<>>
                        \/ /\ EndsWith(st[r].sink, <<Flushed, Flushed>>)
                           /\ ErrorFrames(st[r].sink) = <<>>
                           /\ DoneFrames(st[r].sink) = <<>>

\* After a chunk frame the relay received an error result and wrote the
\* error frame and the [DONE] frame
C38_Witness ==
    /\ st["w1"].relayExit = "error" /\ ~st["w1"].writeFailed
    /\ Len(ChunkFrames(st["w1"].sink)) = 1
    /\ EndsWith(st["w1"].sink, <<ErrorFrame, DoneFrame, Flushed>>)
    /\ h["w1"].status = 200

\* Cache.Get reported a hit and the bytes did not decode
UndecodableHit(r) == h[r].getHit /\ ~h[r].cacheHit

\* C39: after a cache hit whose bytes do not decode as a ChatResponse the
\* handler goes on as after a miss: it calls the unary upstream exactly once;
\* when that call succeeds it calls Cache.Set once with the same key and the
\* upstream response, which replaces the entry unless Set fails or the TTL
\* is not positive, and answers 200 with the upstream response
C39_UndecodableHitIsAMiss ==
    /\ [](\A r \in Reqs :
            UndecodableHit(r)
                => /\ h[r].pc \in {"upstream", "store", "done"}
                   /\ h[r].unaryCalls = IF h[r].pc = "upstream" THEN 0 ELSE 1
                   /\ (h[r].pc = "done" /\ h[r].llmErr # "")
                        => (h[r].status = 502 /\ h[r].setCalls = 0)
                   /\ (h[r].pc = "done" /\ h[r].llmErr = "")
                        => /\ h[r].setCalls = 1
                           /\ h[r].status = 200
                           /\ h[r].body = MarshalResponse(MapProviderResponse(h[r].last.body))
                           /\ hist.stored[h[r].cacheKey].body = h[r].body)
    /\ [][\A r \in Reqs :
            (/\ UndecodableHit(r) /\ h[r].pc = "store" /\ h'[r].pc = "done"
             /\ ~h'[r].setErr /\ cfg.CacheTTL > 0)
                => LET got == CacheGet(cfg.Backend, items', h[r].cacheKey, now, FALSE, FALSE)
                   IN got.hit /\ got.value = h'[r].body]_vars

\* The store held bytes that do not decode; the upstream answered and the
\* entry now holds its response
C39_Witness ==
    /\ UndecodableHit("w1") /\ h["w1"].pc = "done" /\ h["w1"].llmErr = ""
    /\ h["w1"].unaryCalls = 1 /\ h["w1"].setCalls = 1 /\ ~h["w1"].setErr
    /\ h["w1"].status = 200
    /\ cfg.CacheTTL > 0
    /\ CacheGet(cfg.Backend, items, h["w1"].cacheKey, now, FALSE, FALSE).value = h["w1"].body

\* C40: under the Timeout middleware the response is written by one party
\* only: the timeout branch writes its 504 only if the handler goroutine has
\* written nothing and writes nothing afterwards
C40_OneWriterPerResponse ==
    \A r \in Reqs :
        h[r].mw = "timeout" => (h[r].mwSaw = 0 /\ HandlerWrites(r) = 0)

----------------------------------------------------------------------------
(* Properties of the in-process cache object *)

\* C22: a Get of a key whose last Set (ttl > 0, none since) stored v returns
\* (v, hit, no error) when it reads the clock before the ttl has run out, and
\* a miss without error when it is called after the ttl has run out, swept
\* or not
C22_SetThenGet ==
    (mc.get.pc = "done" /\ mc.get.last # <<>> /\ ~mc.get.raced)
        => /\ mc.get.t < mc.get.last[1].expiresAt
                => mc.ret = [value |-> mc.get.last[1].value, hit |-> TRUE, err |-> FALSE]
           /\ mc.get.began > mc.get.last[1].expiresAt => mc.ret = Miss

\* A Get called after the ttl of an entry no sweep has removed misses
C22_Witness ==
    /\ mc.get.pc = "done" /\ mc.get.last # <<>> /\ ~mc.get.raced
    /\ mc.get.began > mc.get.last[1].expiresAt
    /\ mc.get.snap # <<>>
    /\ mc.ret = Miss

\* C32: a Get that hits returns the bytes of the last Set of its key,
\* whatever the callers wrote into the slices they passed to Set or received
\* from Get
C32_CacheOwnsItsBytes ==
    (mc.get.pc = "done" /\ mc.ret.hit)
        => (mc.get.last # <<>> /\ mc.ret.value = mc.get.last[1].value)

\* C24: neither Get nor the sweeper deletes an entry whose deadline is still
\* ahead, whatever Sets, sweeps and clock ticks run between Get's steps
C24_FreshEntryNeverDeleted ==
    [][(GetDelete \/ SweeperSweep)
          => \A k \in DOMAIN items :
                items[k].expiresAt > now => (k \in DOMAIN items' /\ items'[k] = items[k])]_vars

\* A Get saw an expired entry, a Set of the key ran before Get had the writer
\* lock, and the entry now stored is still fresh after the Get
C24_Witness ==
    /\ mc.get.pc = "done" /\ mc.get.raced /\ mc.ret = Miss
    /\ mc.get.snap # <<>> /\ After(mc.get.t, mc.get.snap[1].expiresAt)
    /\ mc.get.key \in DOMAIN items
    /\ items[mc.get.key].expiresAt > now

\* C25 as stated: the stop channel is closed at most once, and once by the
\* time a Close has returned; after the first Close the sweeper sweeps no more
C25_NoSweepAfterClose ==
    /\ [](mc.stopCloses <= 1 /\ (mc.closeCalls > 0 => mc.stopCloses = 1))
    /\ [][mc.once => ~SweeperSweep]_vars

\* C25, amended: the stop channel is closed at most once, and once by the
\* time a Close has returned; after the first Close the sweeper terminates in
\* the end, and once terminated it stays so and sweeps no more.  A tick that
\* waits in the ticker's channel may still be swept after Close
C25_CloseStopsSweeperOnce ==
    /\ [](mc.stopCloses <= 1 /\ (mc.closeCalls > 0 => mc.stopCloses = 1))
    /\ (mc.once ~> mc.sweeper = "stopped")
    /\ [][mc.sweeper = "stopped" => (mc'.sweeper = "stopped" /\ ~SweeperSweep)]_vars

\* Close was called twice and the sweeper has terminated
C25_Witness ==
    mc.closeCalls = MaxCloses /\ mc.stopCloses = 1 /\ mc.sweeper = "stopped"

----------------------------------------------------------------------------
(* Properties of concurrent requests *)

\* C28: of two concurrent non-streaming requests with the same body, one's
\* Cache.Get hits exactly when the other has the same user id and its
\* Cache.Set had completed (the entry not yet past its deadline) before that
\* Get; a request that hit made no upstream call, one that missed made one
C28_HitIffStoredBefore ==
    /\ [][\A a, b \in Reqs :
            (a # b /\ h[b].pc = "lookup" /\ h'[b].pc # "lookup")
                => (h'[b].cacheHit
                      <=> /\ h[a].userID = h[b].userID
                          /\ h[a].setCalls = 1
                          /\ ~After(now, h[a].setAt + cfg.CacheTTL))]_vars
    /\ [](\A b \in Reqs :
            h[b].pc = "done" => h[b].unaryCalls = (IF h[b].cacheHit THEN 0 ELSE 1))

\* Same user, the second Get ran before the first Set: both requests called
\* the upstream and both stored
C28_Witness ==
    /\ \A r \in Reqs : h[r].pc = "done" /\ h[r].unaryCalls = 1 /\ h[r].setCalls = 1
    /\ h["w1"].userID = h["w2"].userID

----------------------------------------------------------------------------
(* Properties of the handler's response *)

\* C29: a request's status line and headers are written at most once, and
\* once when the handler has returned: a JSON 200, a JSON error status, or
\* the 200 of the SSE header block; once the SSE headers are out the status
\* stays 200
C29_HeadersWrittenOnce ==
    \A r \in Reqs :
        /\ h[r].headerWrites <= 1
        /\ h[r].pc = "done" => h[r].headerWrites = 1
        /\ h[r].headerWrites = 0 => h[r].status = 0
        /\ h[r].headerWrites = 1
             => \/ h[r].status = 200 /\ h[r].contentType = "application/json"
                \/ h[r].status >= 400 /\ h[r].contentType = "application/json"
                \/ h[r].status = 200 /\ h[r].contentType = "text/event-stream"

\* A stream failed after its headers were flushed: the error went out as a
\* frame, the status written is the 200
C29_Witness ==
    \E r \in Reqs :
        /\ h[r].pc = "done" /\ h[r].contentType = "text/event-stream"
        /\ h[r].status = 200 /\ h[r].headerWrites = 1
        /\ \E i \in 1..Len(st[r].sink) : st[r].sink[i] = ErrorFrame

\* C33: a streaming request on a response writer that cannot flush is
\* answered 500 streaming_not_supported, and ChatCompletionStream is never
\* called for it
C33_NoFlusherIs500 ==
    \A r \in Reqs :
        (h[r].in.json_ok /\ h[r].in.req.Stream /\ ~h[r].in.flusher)
            => /\ h[r].streamCalls = 0 /\ h[r].unaryCalls = 0
               /\ st[r] = NoStream
               /\ h[r].pc = "done"
                    => /\ h[r].status = 500
                       /\ h[r].body = ErrorBody("streaming_not_supported")
                       /\ h[r].contentType = "application/json"

\* Such a request has been answered
C33_Witness ==
    \E r \in Reqs :
        /\ h[r].in.json_ok /\ h[r].in.req.Stream /\ ~h[r].in.flusher
        /\ h[r].pc = "done" /\ h[r].status = 500 /\ h[r].streamCalls = 0

----------------------------------------------------------------------------
(* Properties of what the retry engine returns *)

\* An attempt the engine may follow with another
RetryableOutcome(o) ==
    RetryableStatus(o) \/ (o.res.kind = "neterr" /\ o.res.transient)

====
